---- MODULE Spec2Model ----
(***************************************************************************)
(* rstparser: the directive store, the link graph builder (full rebuild    *)
(* and incremental update of the watch loop), the emitter, the processor's *)
(* id generation, the RST directive parser and the extractor of RST        *)
(* embedded in C/C++ comments and Python docstrings.                       *)
(*                                                                         *)
(* Text is modelled as a sequence of bytes, one one-character string per   *)
(* ASCII character and two tokens for the two UTF-8 bytes of a non-ASCII   *)
(* character, so that splitting, trimming, searching, slicing and joining  *)
(* are computed as the code computes them.                                 *)
(***************************************************************************)
EXTENDS Integers, Sequences, FiniteSets, TLC

VARIABLES
    store,        \* main.rs current_directives_with_source: path -> (id -> DirectiveWithSource)
    link_graph,   \* main.rs link_graph_watch: id -> LinkNodeData
    emitted,      \* the records of the last aggregate_to_json_from_map_with_links call
    phase,        \* position of main: "start", "watch" or "exited"
    lastOp,       \* the operation that produced the current state
    idsUnique,    \* history: no parse result and no Store so far held an id twice
    rst_file,     \* process_file: the canonical path of the file being processed
    file_content, \* process_file: the content read from the file
    target_directives, \* Processor.target_directives
    extracted_blocks,  \* extract_from_cpp / extract_from_python: the blocks pushed
    rst_content,  \* process_file: the text returned by extract_from_file
    located,      \* parse_rst_multiple: directives_with_positions_and_lines, sorted
    records,      \* process_file: the DirectiveWithSource records returned
    proc,         \* position of process_file: "idle", "done", "failed" or "panicked"
    file_paths,   \* process_files: the files of the batch
    batch,        \* process_files: the value returned, NoBatch before the call
    event,        \* watch loop: the event being handled, NoEvent between events
    locals,       \* watch loop: the handler's locals after the `match event.kind` block
    handler_pc,   \* watch loop: position of the event handler
    emit_pc,      \* aggregate_to_json_from_map_with_links: position of the call
    store_lock,   \* the Mutex of current_directives_with_source: "free" or its holder
    link_graph_lock, \* the Mutex of link_graph_arc_watch: "free" or its holder
    observed      \* what the last build of the output records read: "none",
                  \* "settled", or "half_applied" (a changed Store with the graph before its update)

procVars == <<rst_file, file_content, target_directives, extracted_blocks, rst_content,
              located, records, proc>>

batchVars == <<file_paths, batch>>

lockVars == <<event, locals, handler_pc, emit_pc, store_lock, link_graph_lock, observed>>

vars == <<store, link_graph, emitted, phase, lastOp, idsUnique,
          rst_file, file_content, target_directives, extracted_blocks, rst_content,
          located, records, proc,
          file_paths, batch,
          event, locals, handler_pc, emit_pc, store_lock, link_graph_lock, observed>>

(***************************************************************************)
(* Strings                                                                 *)
(***************************************************************************)

Range(s) == {s[i] : i \in DOMAIN s}

Contains(s, x) == \E i \in DOMAIN s : s[i] = x

\* char::is_whitespace, restricted to the characters of the model
Whitespace == {" ", "\t", "\n", "\r"}

RECURSIVE TrimStart(_)
TrimStart(s) ==
    IF s = <<>> THEN s
    ELSE IF Head(s) \in Whitespace THEN TrimStart(Tail(s)) ELSE s

RECURSIVE TrimEnd(_)
TrimEnd(s) ==
    IF s = <<>> THEN s
    ELSE IF s[Len(s)] \in Whitespace THEN TrimEnd(SubSeq(s, 1, Len(s) - 1)) ELSE s

Trim(s) == TrimEnd(TrimStart(s))

\* str::split(c): the fragments between the occurrences of c, empty ones included
RECURSIVE SplitOn(_, _)
SplitOn(s, c) ==
    IF ~Contains(s, c) THEN <<s>>
    ELSE LET i == CHOOSE k \in DOMAIN s : s[k] = c /\ \A j \in 1..(k - 1) : s[j] # c
         IN <<SubSeq(s, 1, i - 1)>> \o SplitOn(SubSeq(s, i + 1, Len(s)), c)

\* [String]::join(sep)
RECURSIVE Join(_, _)
Join(parts, sep) ==
    IF parts = <<>> THEN <<>>
    ELSE IF Len(parts) = 1 THEN parts[1]
    ELSE parts[1] \o sep \o Join(Tail(parts), sep)

\* usize formatted by `{}`: the decimal digits
Digit(n) == <<"0", "1", "2", "3", "4", "5", "6", "7", "8", "9">>[n + 1]

RECURSIVE Decimal(_)
Decimal(n) == IF n < 10 THEN <<Digit(n)>> ELSE Decimal(n \div 10) \o <<Digit(n % 10)>>

(***************************************************************************)
(* Maps (HashMap): functions with a finite domain                          *)
(***************************************************************************)

EmptyMap == [x \in {} |-> <<>>]

MapPut(m, k, v) == [x \in DOMAIN m \cup {k} |-> IF x = k THEN v ELSE m[x]]

MapRemove(m, k) == [x \in DOMAIN m \ {k} |-> m[x]]

MapRetain(m, keep) == [x \in DOMAIN m \cap keep |-> m[x]]

MapGetOr(m, k, d) == IF k \in DOMAIN m THEN m[k] ELSE d

\* every ordering of a finite set (HashMap / HashSet iteration order is unspecified)
Orderings(S) ==
    {o \in [1..Cardinality(S) -> S] : \A i, j \in 1..Cardinality(S) : i # j => o[i] # o[j]}

(***************************************************************************)
(* Paths                                                                   *)
(***************************************************************************)

\* Path::starts_with: component-wise prefix
StartsWith(p, base) == Len(base) <= Len(p) /\ SubSeq(p, 1, Len(base)) = base

\* Path::to_string_lossy of an absolute path: each component after a "/"
RECURSIVE PathStr(_)
PathStr(p) == IF p = <<>> THEN <<>> ELSE <<"/">> \o Head(p) \o PathStr(Tail(p))

\* Path::extension: the text after the last "." of the last component
RECURSIVE AfterLastDot(_)
AfterLastDot(s) ==
    IF ~Contains(s, ".") THEN s
    ELSE AfterLastDot(SubSeq(s, (CHOOSE k \in DOMAIN s : s[k] = "." /\ \A j \in 1..(k - 1) : s[j] # ".") + 1, Len(s)))

HasExtension(p) == p # <<>> /\ Contains(Tail(p[Len(p)]), ".")

Extension(p) == AfterLastDot(p[Len(p)])

(***************************************************************************)
(* The RST directive parser (parser.rs)                                    *)
(***************************************************************************)

\* hay[k..] starts with needle (k a 0-based offset)
IsAt(hay, needle, k) ==
    k + Len(needle) <= Len(hay) /\ \A j \in 1..Len(needle) : hay[k + j] = needle[j]

\* str::find: the 0-based offset of the first occurrence of needle, or -1
Find(hay, needle) ==
    LET hits == {k \in 0..(Len(hay) - Len(needle)) : IsAt(hay, needle, k)}
    IN IF hits = {} THEN -1 ELSE CHOOSE k \in hits : \A j \in hits : k <= j

\* &s[from..]
SliceFrom(s, from) == SubSeq(s, from + 1, Len(s))

\* &s[..to]
SliceTo(s, to) == SubSeq(s, 1, to)

StartsWithStr(s, prefix) == IsAt(s, prefix, 0)

\* the two bytes of a non-ASCII character (U+00E9) in UTF-8
Utf8Lead         == "<C3>"
Utf8Continuation == "<A9>"

\* str::is_char_boundary: the start, the end, or a byte that continues no character
IsCharBoundary(s, index) ==
    \/ index = 0
    \/ index = Len(s)
    \/ index < Len(s) /\ s[index + 1] # Utf8Continuation

StripCr(l) == IF l # <<>> /\ l[Len(l)] = "\r" THEN SubSeq(l, 1, Len(l) - 1) ELSE l

\* str::lines: the text between line feeds, a final empty piece left out
Lines(s) ==
    LET parts == SplitOn(s, "\n")
        kept == IF parts[Len(parts)] = <<>> THEN SubSeq(parts, 1, Len(parts) - 1) ELSE parts
    IN [i \in DOMAIN kept |-> StripCr(kept[i])]

\* line.len() - line.trim_start().len()
Indentation(line) == Len(line) - Len(TrimStart(line))

IsBlank(line) == Trim(line) = <<>>

\* a marker without the closing colons: matches every name the target is a prefix of
DirectiveStartPrefix(target_directive) == <<".", ".", " ">> \o target_directive

\* format!(".. {}::", target_directive)
DirectiveStart(target_directive) == <<".", ".", " ">> \o target_directive \o <<":", ":">>

NoIndent == -1

\* the indentation of the first non-blank line after the directive line, if any
BlockIndentation(body_lines) ==
    IF \E i \in DOMAIN body_lines : TrimStart(body_lines[i]) # <<>>
    THEN Indentation(body_lines[CHOOSE i \in DOMAIN body_lines :
                                   /\ TrimStart(body_lines[i]) # <<>>
                                   /\ \A j \in 1..(i - 1) : TrimStart(body_lines[j]) = <<>>])
    ELSE NoIndent

\* the lines after line i that continue a multi-line option value: the run of
\* non-blank lines indented more than the option line
RECURSIVE ContinuationCount(_, _, _)
ContinuationCount(body_lines, i, option_line_indentation) ==
    IF i <= Len(body_lines)
       /\ Trim(body_lines[i]) # <<>>
       /\ Indentation(body_lines[i]) > option_line_indentation
    THEN 1 + ContinuationCount(body_lines, i + 1, option_line_indentation)
    ELSE 0

\* the value of an option: its fragments joined, an empty first fragment dropped
FinalValue(value_parts) ==
    IF Len(value_parts) > 1 /\ value_parts[1] = <<>>
    THEN Join(Tail(value_parts), <<"\n">>)
    ELSE Join(value_parts, <<"\n">>)

\* the loop over the lines with one step changed: "blank" a blank line does not end
\* the options phase, "malformed" a malformed option line is dropped and the phase
\* goes on, "indentation" a less-indented line is taken as content
RECURSIVE ScanBodyVariant(_, _, _, _, _, _, _)
ScanBodyVariant(fault, body_lines, i, in_options, options, content_lines, block_indentation) ==
    IF i > Len(body_lines) THEN [options |-> options, content_lines |-> content_lines]
    ELSE
    LET line_str == body_lines[i]
        current_indentation == Indentation(line_str)
        trimmed_line == Trim(line_str)
        is_option == /\ in_options
                     /\ StartsWithStr(trimmed_line, <<":">>)
                     /\ Contains(Tail(trimmed_line), ":")
        ends_options == in_options /\ ~StartsWithStr(trimmed_line, <<":">>) /\ trimmed_line = <<>>
    IN IF is_option
       THEN LET parts == SplitOn(Tail(trimmed_line), ":")
                key == Trim(parts[1])
                value_str == Join(Tail(parts), <<":">>)
                n == ContinuationCount(body_lines, i + 1, current_indentation)
                value_parts == <<TrimStart(value_str)>> \o
                               [k \in 1..n |-> Trim(body_lines[i + k])]
            IN ScanBodyVariant(fault, body_lines, i + 1 + n, TRUE, MapPut(options, key, FinalValue(value_parts)),
                        content_lines, block_indentation)
       ELSE IF ends_options
       THEN ScanBodyVariant(fault, body_lines, i + 1, fault = "blank", options, content_lines,
                            block_indentation)
       ELSE IF fault = "malformed" /\ in_options /\ StartsWithStr(trimmed_line, <<":">>)
       THEN ScanBodyVariant(fault, body_lines, i + 1, TRUE, options, content_lines,
                            block_indentation)
       ELSE IF StartsWithStr(trimmed_line, <<".", ".", " ">>) /\ Find(trimmed_line, <<":", ":">>) >= 0
       THEN [options |-> options, content_lines |-> content_lines]
       ELSE IF block_indentation = NoIndent
               \/ current_indentation >= block_indentation
               \/ trimmed_line = <<>>
               \/ fault = "indentation"
       THEN ScanBodyVariant(fault, body_lines, i + 1, FALSE, options, Append(content_lines, line_str),
                     block_indentation)
       ELSE [options |-> options, content_lines |-> content_lines]

ScanBodyBlankStays(body_lines, i, in_options, options, content_lines, block_indentation) ==
    ScanBodyVariant("blank", body_lines, i, in_options, options, content_lines, block_indentation)

ScanBodyMalformedDropped(body_lines, i, in_options, options, content_lines, block_indentation) ==
    ScanBodyVariant("malformed", body_lines, i, in_options, options, content_lines, block_indentation)

ScanBodyAnyIndentation(body_lines, i, in_options, options, content_lines, block_indentation) ==
    ScanBodyVariant("indentation", body_lines, i, in_options, options, content_lines, block_indentation)

\* the loop over the lines after the directive line: options, then content
RECURSIVE ScanBody(_, _, _, _, _, _)
ScanBody(body_lines, i, in_options, options, content_lines, block_indentation) ==
    IF i > Len(body_lines) THEN [options |-> options, content_lines |-> content_lines]
    ELSE
    LET line_str == body_lines[i]
        current_indentation == Indentation(line_str)
        trimmed_line == Trim(line_str)
        is_option == /\ in_options
                     /\ StartsWithStr(trimmed_line, <<":">>)
                     /\ Contains(Tail(trimmed_line), ":")
        ends_options == in_options /\ ~StartsWithStr(trimmed_line, <<":">>) /\ trimmed_line = <<>>
    IN IF is_option
       THEN LET parts == SplitOn(Tail(trimmed_line), ":")
                key == Trim(parts[1])
                value_str == Join(Tail(parts), <<":">>)
                n == ContinuationCount(body_lines, i + 1, current_indentation)
                value_parts == <<TrimStart(value_str)>> \o
                               [k \in 1..n |-> Trim(body_lines[i + k])]
            IN ScanBody(body_lines, i + 1 + n, TRUE, MapPut(options, key, FinalValue(value_parts)),
                        content_lines, block_indentation)
       ELSE IF ends_options
       THEN ScanBody(body_lines, i + 1, FALSE, options, content_lines, block_indentation)
       ELSE IF StartsWithStr(trimmed_line, <<".", ".", " ">>) /\ Find(trimmed_line, <<":", ":">>) >= 0
       THEN [options |-> options, content_lines |-> content_lines]
       ELSE IF block_indentation = NoIndent
               \/ current_indentation >= block_indentation
               \/ trimmed_line = <<>>
       THEN ScanBody(body_lines, i + 1, FALSE, options, Append(content_lines, line_str),
                     block_indentation)
       ELSE [options |-> options, content_lines |-> content_lines]

Min(S) == CHOOSE x \in S : \A y \in S : x <= y

\* the content lines without the indentation of their first non-blank line
DedentByFirstLine(content_lines) ==
    LET filled == {k \in DOMAIN content_lines : ~IsBlank(content_lines[k])}
    IN [i \in DOMAIN content_lines |->
           IF IsBlank(content_lines[i]) THEN <<>>
           ELSE SliceFrom(content_lines[i], Indentation(content_lines[Min(filled)]))]

\* the content lines without their common indentation, blank lines made empty
Dedent(content_lines) ==
    LET indents == {Indentation(content_lines[i]) :
                       i \in {k \in DOMAIN content_lines : ~IsBlank(content_lines[k])}}
    IN [i \in DOMAIN content_lines |->
           IF IsBlank(content_lines[i]) THEN <<>>
           ELSE SliceFrom(content_lines[i], Min(indents))]

\* the lines as they are, trailing blank lines kept
KeepTrailingBlank(ls) == ls

\* pop the trailing lines that are blank
RECURSIVE PopTrailingBlank(_)
PopTrailingBlank(ls) ==
    IF ls # <<>> /\ IsBlank(ls[Len(ls)]) THEN PopTrailingBlank(SubSeq(ls, 1, Len(ls) - 1)) ELSE ls

NoDirective == [found |-> FALSE]

\* parse_rst: the first occurrence of `.. target_directive::` in text
parse_rst(text, target_directive) ==
    LET directive_start == DirectiveStart(target_directive)
        start_index == Find(text, directive_start)
    IN IF start_index < 0 THEN NoDirective
       ELSE
       LET line_number == Len(Lines(SliceTo(text, start_index))) + 1
           directive_body_start_index == start_index + Len(directive_start)
           rest == SliceFrom(text, directive_body_start_index)
           line_end == IF Find(rest, <<"\n">>) >= 0 THEN Find(rest, <<"\n">>) ELSE Len(rest)
           arguments == Trim(SliceTo(rest, line_end))
           all_lines == Lines(rest)
           after == IF all_lines = <<>> THEN <<>> ELSE Tail(all_lines)
           scanned == ScanBody(after, 1, TRUE, EmptyMap, <<>>, BlockIndentation(after))
       IN [found       |-> TRUE,
           directive   |-> [name      |-> target_directive,
                            arguments |-> arguments,
                            options   |-> scanned.options,
                            content   |-> Join(PopTrailingBlank(Dedent(scanned.content_lines)), <<"\n">>)],
           line_number |-> line_number]

\* the occurrences of one directive name: scan, parse, step past the marker
RECURSIVE FindDirectives(_, _, _)
FindDirectives(text, directive_name, pos) ==
    LET directive_start == DirectiveStart(directive_name)
        start_index == Find(SliceFrom(text, pos), directive_start)
    IN IF start_index < 0 THEN <<>>
       ELSE
       LET absolute_start == pos + start_index
           result == parse_rst(SliceFrom(text, absolute_start), directive_name)
           absolute_line_number == Len(Lines(SliceTo(text, absolute_start))) + result.line_number
           entry == IF result.found
                    THEN <<[position    |-> absolute_start,
                            directive   |-> result.directive,
                            line_number |-> absolute_line_number]>>
                    ELSE <<>>
           next_pos == absolute_start + Len(directive_start)
       IN IF next_pos < Len(text)
          THEN entry \o FindDirectives(text, directive_name, next_pos + 1)
          ELSE entry

\* the cursor of one directive name reaches an offset inside a character, where the
\* slice text[pos..] panics
RECURSIVE CursorPanics(_, _, _)
CursorPanics(text, directive_name, pos) ==
    IF ~IsCharBoundary(text, pos) THEN TRUE
    ELSE
    LET directive_start == DirectiveStart(directive_name)
        start_index == Find(SliceFrom(text, pos), directive_start)
        next_pos == pos + start_index + Len(directive_start)
    IN start_index >= 0 /\ next_pos < Len(text) /\ CursorPanics(text, directive_name, next_pos + 1)

\* parse_rst_multiple panics for one of the names
ParsePanics(text, target_names) ==
    \E i \in DOMAIN target_names : CursorPanics(text, target_names[i], 0)

RECURSIVE FindAll(_, _)
FindAll(text, target_names) ==
    IF target_names = <<>> THEN <<>>
    ELSE FindDirectives(text, Head(target_names), 0) \o FindAll(text, Tail(target_names))

\* sort_by_key(position): a stable sort
RECURSIVE InsertByPosition(_, _)
InsertByPosition(sorted, e) ==
    IF sorted = <<>> THEN <<e>>
    ELSE IF sorted[Len(sorted)].position <= e.position THEN Append(sorted, e)
    ELSE Append(InsertByPosition(SubSeq(sorted, 1, Len(sorted) - 1), e), sorted[Len(sorted)])

RECURSIVE SortByPosition(_)
SortByPosition(entries) ==
    IF entries = <<>> THEN <<>>
    ELSE InsertByPosition(SortByPosition(SubSeq(entries, 1, Len(entries) - 1)), entries[Len(entries)])

\* the directives with their positions, in text order
directives_with_positions_and_lines(text, target_names) ==
    SortByPosition(FindAll(text, target_names))

\* the final map of parse_rst_multiple: (position, directive, line) to (directive, line)
StripPositions(sorted) ==
    [i \in DOMAIN sorted |->
        [directive |-> sorted[i].directive, line_number |-> sorted[i].line_number]]

\* parse_rst_multiple: the (directive, line number) pairs in text order
parse_rst_multiple(text, target_names) ==
    StripPositions(directives_with_positions_and_lines(text, target_names))

(***************************************************************************)
(* The embedded-RST extractor (extractor.rs)                               *)
(***************************************************************************)

RST_START_MARKER == <<"@", "r", "s", "t">>
RST_END_MARKER   == <<"@", "e", "n", "d", "r", "s", "t">>
TRIPLE_DOUBLE_QUOTE == <<"\"", "\"", "\"">>
TRIPLE_SINGLE_QUOTE == <<"'", "'", "'">>

\* line.chars().take_while(|&c| c == ' ').count()
RECURSIVE LeadingSpaces(_)
LeadingSpaces(line) ==
    IF line # <<>> /\ Head(line) = " " THEN 1 + LeadingSpaces(Tail(line)) ELSE 0

\* str::trim_end_matches(' ')
RECURSIVE TrimEndSpaces(_)
TrimEndSpaces(s) ==
    IF s # <<>> /\ s[Len(s)] = " " THEN TrimEndSpaces(SubSeq(s, 1, Len(s) - 1)) ELSE s

\* remove the blank lines at the beginning of a list of lines
RECURSIVE DropLeadingBlank(_)
DropLeadingBlank(ls) ==
    IF ls # <<>> /\ IsBlank(Head(ls)) THEN DropLeadingBlank(Tail(ls)) ELSE ls

\* dedent_lines: remove the common leading spaces and the blank lines at both ends
dedent_lines(lines) ==
    IF lines = <<>> THEN <<>>
    ELSE
    LET non_blank == {i \in DOMAIN lines : ~IsBlank(lines[i])}
    IN IF non_blank = {} THEN Join(lines, <<"\n">>)
       ELSE
       LET min_indent == Min({LeadingSpaces(lines[i]) : i \in non_blank})
           processed_lines == [i \in DOMAIN lines |->
                                  IF IsBlank(lines[i]) THEN <<>>
                                  ELSE IF Len(lines[i]) >= min_indent
                                  THEN SliceFrom(lines[i], min_indent)
                                  ELSE lines[i]]
       IN Join(PopTrailingBlank(DropLeadingBlank(processed_lines)), <<"\n">>)

NoComment == [some |-> FALSE, text |-> <<>>]

SomeComment(t) == [some |-> TRUE, text |-> t]

\* comment_content where the four-character marker `/// ` is tried after `///`
CommentContentBareFirst(line) ==
    LET trimmed_line == TrimStart(line)
    IN IF StartsWithStr(trimmed_line, <<"/", "/", "/">>) THEN SomeComment(SliceFrom(trimmed_line, 3))
       ELSE IF StartsWithStr(trimmed_line, <<"/", "/">>) THEN SomeComment(SliceFrom(trimmed_line, 2))
       ELSE NoComment

\* comment_content: the text of a `///` or `//` comment line after the marker and
\* one optional space
CommentContent(line) ==
    LET trimmed_line == TrimStart(line)
    IN IF StartsWithStr(trimmed_line, <<"/", "/", "/", " ">>) THEN SomeComment(SliceFrom(trimmed_line, 4))
       ELSE IF StartsWithStr(trimmed_line, <<"/", "/", "/">>) THEN SomeComment(SliceFrom(trimmed_line, 3))
       ELSE IF StartsWithStr(trimmed_line, <<"/", "/", " ">>) THEN SomeComment(SliceFrom(trimmed_line, 3))
       ELSE IF StartsWithStr(trimmed_line, <<"/", "/">>) THEN SomeComment(SliceFrom(trimmed_line, 2))
       ELSE NoComment

CppStart == [extracted_blocks |-> <<>>, current_block_lines |-> <<>>, in_rst_block |-> FALSE]

\* a non-comment line inside a block that is passed over: the block stays open
CppBrokenIgnored(st, line) ==
    IF IsBlank(line)
    THEN [st EXCEPT !.current_block_lines = Append(@, <<>>)]
    ELSE st

\* a line that is not a comment, inside a block: a blank line is kept, any other
\* line breaks the block
CppBroken(st, line) ==
    IF IsBlank(line)
    THEN [st EXCEPT !.current_block_lines = Append(@, <<>>)]
    ELSE [st EXCEPT !.current_block_lines = <<>>, !.in_rst_block = FALSE]

\* a comment line inside a block
CppInBlock(st, text_in_comment) ==
    LET end_marker_pos == Find(text_in_comment, RST_END_MARKER)
    IN IF end_marker_pos >= 0
       THEN LET content_before_end_marker == TrimEnd(SliceTo(text_in_comment, end_marker_pos))
                block_lines == IF content_before_end_marker # <<>>
                               THEN Append(st.current_block_lines, content_before_end_marker)
                               ELSE st.current_block_lines
            IN [extracted_blocks    |-> IF block_lines # <<>>
                                        THEN Append(st.extracted_blocks, dedent_lines(block_lines))
                                        ELSE st.extracted_blocks,
                current_block_lines |-> <<>>,
                in_rst_block        |-> FALSE]
       ELSE [st EXCEPT !.current_block_lines = Append(@, text_in_comment)]

\* a comment line outside a block
CppOutside(st, text_after_comment_marker) ==
    LET potential_rst_line_content == TrimStart(text_after_comment_marker)
    IN IF ~StartsWithStr(potential_rst_line_content, RST_START_MARKER) THEN st
       ELSE
       LET after_marker == SliceFrom(potential_rst_line_content, Len(RST_START_MARKER))
           content_on_rst_line == IF StartsWithStr(after_marker, <<" ">>)
                                  THEN Tail(after_marker) ELSE after_marker
           end_marker_pos == Find(content_on_rst_line, RST_END_MARKER)
       IN IF end_marker_pos >= 0
          THEN LET single_line_rst == TrimEndSpaces(SliceTo(content_on_rst_line, end_marker_pos))
               IN [st EXCEPT !.extracted_blocks =
                                 IF single_line_rst # <<>> THEN Append(@, single_line_rst)
                                 ELSE IF end_marker_pos = 0 THEN Append(@, <<>>)
                                 ELSE @,
                             !.in_rst_block = FALSE]
          ELSE [st EXCEPT !.current_block_lines =
                              IF content_on_rst_line # <<>> THEN Append(@, content_on_rst_line)
                              ELSE @,
                          !.in_rst_block = TRUE]

\* the body of the loop over content.lines()
CppStep(st, line) ==
    LET comment_content == CommentContent(line)
    IN IF st.in_rst_block
       THEN IF comment_content.some THEN CppInBlock(st, comment_content.text)
            ELSE CppBroken(st, line)
       ELSE IF comment_content.some THEN CppOutside(st, comment_content.text)
            ELSE st

RECURSIVE CppScan(_, _, _)
CppScan(st, lines, i) ==
    IF i > Len(lines) THEN st ELSE CppScan(CppStep(st, lines[i]), lines, i + 1)

\* extract_from_cpp: the blocks pushed, in order
cpp_extracted_blocks(content) == CppScan(CppStart, Lines(content), 1).extracted_blocks

\* the blocks joined by a single line feed
JoinBlocksTight(blocks) == Join(blocks, <<"\n">>)

\* extracted_blocks.join("\n\n")
JoinBlocks(blocks) == Join(blocks, <<"\n", "\n">>)

extract_from_cpp(content) == JoinBlocks(cpp_extracted_blocks(content))

\* one `@rst` .. `@endrst` slice of a docstring, made a block
PyBlock(block_content_raw) ==
    LET n == Len(block_content_raw)
        no_lf == IF n > 0 /\ block_content_raw[n] = "\n"
                 THEN SubSeq(block_content_raw, 1, n - 1) ELSE block_content_raw
        processed_block_str == IF n > 0 /\ block_content_raw[n] = "\n"
                                  /\ no_lf # <<>> /\ no_lf[Len(no_lf)] = "\r"
                               THEN SubSeq(no_lf, 1, Len(no_lf) - 1) ELSE no_lf
    IN IF processed_block_str = <<>>
       THEN IF Trim(block_content_raw) = <<>> /\ block_content_raw # <<>>
            THEN dedent_lines(<< <<>> >>)
            ELSE <<>>
       ELSE dedent_lines(Lines(processed_block_str))

\* the inner scan: the `@rst` .. `@endrst` pairs of one docstring, left to right
RECURSIVE DocBlocks(_, _)
DocBlocks(doc_content, rst_search_offset_in_doc) ==
    IF rst_search_offset_in_doc >= Len(doc_content) THEN <<>>
    ELSE
    LET rst_start_rel == Find(SliceFrom(doc_content, rst_search_offset_in_doc), RST_START_MARKER)
    IN IF rst_start_rel < 0 THEN <<>>
       ELSE
       LET rst_content_actual_start == rst_search_offset_in_doc + rst_start_rel + Len(RST_START_MARKER)
           rst_end_rel == Find(SliceFrom(doc_content, rst_content_actual_start), RST_END_MARKER)
       IN IF rst_end_rel < 0 THEN <<>>
          ELSE
          LET rst_content_actual_end == rst_content_actual_start + rst_end_rel
              block_content_raw == SubSeq(doc_content, rst_content_actual_start + 1, rst_content_actual_end)
          IN <<PyBlock(block_content_raw)>> \o
             DocBlocks(doc_content, rst_content_actual_end + Len(RST_END_MARKER))

\* the next docstring opening at or after search_offset: the earlier of the two
\* delimiters (found |-> FALSE when there is none)
DocStart(content, search_offset) ==
    LET q1_start == Find(SliceFrom(content, search_offset), TRIPLE_DOUBLE_QUOTE)
        q3_start == Find(SliceFrom(content, search_offset), TRIPLE_SINGLE_QUOTE)
    IN IF q1_start < 0 /\ q3_start < 0 THEN [found |-> FALSE]
       ELSE IF q3_start < 0 \/ (q1_start >= 0 /\ q1_start <= q3_start)
       THEN [found |-> TRUE, marker |-> TRIPLE_DOUBLE_QUOTE, rel |-> q1_start]
       ELSE [found |-> TRUE, marker |-> TRIPLE_SINGLE_QUOTE, rel |-> q3_start]

\* the outer scan where an unclosed docstring runs to the end of the file
RECURSIVE PyScanToEnd(_, _)
PyScanToEnd(content, search_offset) ==
    IF search_offset >= Len(content) THEN <<>>
    ELSE
    LET start == DocStart(content, search_offset)
    IN IF ~start.found THEN <<>>
       ELSE
       LET doc_content_start_abs == search_offset + start.rel + Len(start.marker)
           doc_end_rel == Find(SliceFrom(content, doc_content_start_abs), start.marker)
       IN IF doc_end_rel < 0 THEN DocBlocks(SliceFrom(content, doc_content_start_abs), 0)
          ELSE
          LET doc_end_abs == doc_content_start_abs + doc_end_rel
          IN DocBlocks(SubSeq(content, doc_content_start_abs + 1, doc_end_abs), 0) \o
             PyScanToEnd(content, doc_end_abs + Len(start.marker))

\* the outer scan where a docstring with an open `@rst` ends the extraction
RECURSIVE PyScanHalting(_, _)
PyScanHalting(content, search_offset) ==
    IF search_offset >= Len(content) THEN <<>>
    ELSE
    LET start == DocStart(content, search_offset)
    IN IF ~start.found THEN <<>>
       ELSE
       LET doc_content_start_abs == search_offset + start.rel + Len(start.marker)
           doc_end_rel == Find(SliceFrom(content, doc_content_start_abs), start.marker)
       IN IF doc_end_rel < 0 THEN <<>>
          ELSE
          LET doc_end_abs == doc_content_start_abs + doc_end_rel
              doc_content == SubSeq(content, doc_content_start_abs + 1, doc_end_abs)
              open == Find(doc_content, RST_START_MARKER) >= 0
                      /\ Len(DocBlocks(doc_content \o RST_END_MARKER, 0)) > Len(DocBlocks(doc_content, 0))
          IN IF open THEN DocBlocks(doc_content, 0)
             ELSE DocBlocks(doc_content, 0) \o PyScanHalting(content, doc_end_abs + Len(start.marker))

\* the outer scan where a docstring is closed by the next delimiter of either kind
RECURSIVE PyScanAnyDelimiter(_, _)
PyScanAnyDelimiter(content, search_offset) ==
    IF search_offset >= Len(content) THEN <<>>
    ELSE
    LET start == DocStart(content, search_offset)
    IN IF ~start.found THEN <<>>
       ELSE
       LET doc_content_start_abs == search_offset + start.rel + Len(start.marker)
           end == DocStart(content, doc_content_start_abs)
       IN IF ~end.found THEN <<>>
          ELSE
          LET doc_end_abs == doc_content_start_abs + end.rel
          IN DocBlocks(SubSeq(content, doc_content_start_abs + 1, doc_end_abs), 0) \o
             PyScanAnyDelimiter(content, doc_end_abs + Len(end.marker))

\* the outer scan: the docstrings of the file, left to right
RECURSIVE PyScan(_, _)
PyScan(content, search_offset) ==
    IF search_offset >= Len(content) THEN <<>>
    ELSE
    LET start == DocStart(content, search_offset)
    IN IF ~start.found THEN <<>>
       ELSE
       LET doc_content_start_abs == search_offset + start.rel + Len(start.marker)
           doc_end_rel == Find(SliceFrom(content, doc_content_start_abs), start.marker)
       IN IF doc_end_rel < 0 THEN <<>>
          ELSE
          LET doc_end_abs == doc_content_start_abs + doc_end_rel
          IN DocBlocks(SubSeq(content, doc_content_start_abs + 1, doc_end_abs), 0) \o
             PyScan(content, doc_end_abs + Len(start.marker))

\* extract_from_python: the blocks pushed, in order
python_extracted_blocks(content) == PyScan(content, 0)

extract_from_python(content) == JoinBlocks(python_extracted_blocks(content))

CppExtensions ==
    {<<"c", "p", "p">>, <<"h">>, <<"h", "p", "p">>, <<"c", "x", "x">>,
     <<"h", "x", "x">>, <<"c", "c">>, <<"h", "h">>}

\* the kind of extraction chosen when the letters of the extension are compared
\* without regard to case
FileKindIgnoringCase(file_path) ==
    LET lower(c) == CASE c = "R" -> "r" [] c = "S" -> "s" [] c = "T" -> "t"
                      [] c = "P" -> "p" [] c = "C" -> "c" [] OTHER -> c
        ext == [i \in DOMAIN Extension(file_path) |-> lower(Extension(file_path)[i])]
    IN IF ~HasExtension(file_path) THEN "none"
       ELSE IF ext \in CppExtensions THEN "cpp"
       ELSE IF ext = <<"p", "y">> THEN "py"
       ELSE IF ext = <<"r", "s", "t">> THEN "rst"
       ELSE "none"

\* the kind of extraction extract_from_file chooses for a path
FileKind(file_path) ==
    IF ~HasExtension(file_path) THEN "none"
    ELSE IF Extension(file_path) \in CppExtensions THEN "cpp"
    ELSE IF Extension(file_path) = <<"p", "y">> THEN "py"
    ELSE IF Extension(file_path) = <<"r", "s", "t">> THEN "rst"
    ELSE "none"

\* the blocks extracted from a C/C++ or Python file (none for other files)
extracted_blocks_of(file_path, content) ==
    CASE FileKind(file_path) = "cpp" -> cpp_extracted_blocks(content)
      [] FileKind(file_path) = "py"  -> python_extracted_blocks(content)
      [] OTHER -> <<>>

\* RstExtractor::extract_from_file
extract_from_file(file_path, content) ==
    CASE FileKind(file_path) = "cpp" -> extract_from_cpp(content)
      [] FileKind(file_path) = "py"  -> extract_from_python(content)
      [] FileKind(file_path) = "rst" -> content
      [] OTHER -> <<>>

(***************************************************************************)
(* Link configuration and graph nodes (link_data.rs)                       *)
(***************************************************************************)

\* LinkConfig.link_types: the names of the configured link fields, in file order
LinkTypes == << <<"l">>, <<"m">> >>

\* format!("{}_back", field_name)
BackName(f) == f \o <<"_", "b", "a", "c", "k">>

\* LinkNodeData::default()
EmptyNode == [outgoing_links |-> EmptyMap, incoming_links |-> EmptyMap]

(***************************************************************************)
(* BacklinkFunction::apply (directive_functions.rs)                        *)
(***************************************************************************)

IsNonEmpty(s) == s # <<>>

TrimAll(parts) == [i \in DOMAIN parts |-> Trim(parts[i])]

\* target_ids_str.split(',').map(trim).filter(non-empty).collect()
CurrentTargetIds(target_ids_str) == SelectSeq(TrimAll(SplitOn(target_ids_str, ",")), IsNonEmpty)

\* Pass 1, first half: the (field, targets) entries pushed on links_to_process
RECURSIVE LinksToProcess(_, _)
LinksToProcess(options, i) ==
    IF i > Len(LinkTypes) THEN <<>>
    ELSE LET f == LinkTypes[i]
             rest == LinksToProcess(options, i + 1)
         IN IF f \in DOMAIN options /\ options[f] # <<>> /\ CurrentTargetIds(options[f]) # <<>>
            THEN <<[field |-> f, targets |-> CurrentTargetIds(options[f])]>> \o rest
            ELSE rest

\* link_graph.entry(id).or_default() for every id of S
EnsureNodes(g, S) == [n \in DOMAIN g \cup S |-> IF n \in DOMAIN g THEN g[n] ELSE EmptyNode]

\* Pass 1, second half: the source node and every target node exist
Pass1(g, directive_id, links) ==
    IF links = <<>> THEN g
    ELSE EnsureNodes(g, {directive_id} \cup UNION {Range(links[i].targets) : i \in DOMAIN links})

\* Pass 2: clear the old outgoing links of the source, if it has a node
Pass2(g, directive_id) ==
    IF directive_id \in DOMAIN g
    THEN [g EXCEPT ![directive_id].outgoing_links = EmptyMap]
    ELSE g

\* Pass 3, outgoing: extend outgoing_links[field] of the source by all the targets
ExtendOutgoing(g, source_id, field, targets) ==
    IF source_id \in DOMAIN g
    THEN [g EXCEPT ![source_id].outgoing_links =
              MapPut(@, field, MapGetOr(@, field, <<>>) \o targets)]
    ELSE g

\* Pass 3, incoming, without the test of the list: the source is pushed each time
PushIncomingAlways(g, source_id, field, target_id) ==
    IF target_id = source_id THEN g
    ELSE IF target_id \in DOMAIN g
    THEN [g EXCEPT ![target_id].incoming_links =
             MapPut(@, BackName(field), Append(MapGetOr(@, BackName(field), <<>>), source_id))]
    ELSE g

\* Pass 3, incoming: push the source on the target's backlink list, once
PushIncoming(g, source_id, field, target_id) ==
    IF target_id = source_id THEN g
    ELSE IF target_id \in DOMAIN g
    THEN LET cur == MapGetOr(g[target_id].incoming_links, BackName(field), <<>>)
         IN [g EXCEPT ![target_id].incoming_links =
                 MapPut(@, BackName(field),
                        IF Contains(cur, source_id) THEN cur ELSE Append(cur, source_id))]
    ELSE g

RECURSIVE PushIncomingAll(_, _, _, _)
PushIncomingAll(g, source_id, field, targets) ==
    IF targets = <<>> THEN g
    ELSE PushIncomingAll(PushIncoming(g, source_id, field, Head(targets)),
                         source_id, field, Tail(targets))

RECURSIVE Pass3(_, _, _)
Pass3(g, source_id, links) ==
    IF links = <<>> THEN g
    ELSE LET l == Head(links)
         IN Pass3(PushIncomingAll(ExtendOutgoing(g, source_id, l.field, l.targets),
                                  source_id, l.field, l.targets),
                  source_id, Tail(links))

BacklinkApply(g, directive_id, dws) ==
    LET links == LinksToProcess(dws.directive.options, 1)
    IN Pass3(Pass2(Pass1(g, directive_id, links), directive_id), directive_id, links)

(***************************************************************************)
(* FunctionApplicator (directive_functions.rs)                             *)
(***************************************************************************)

\* the ids that are keys of some file's map of the Store
StoreIds(st) == UNION {DOMAIN st[f] : f \in DOMAIN st}

\* apply_to_subset: apply to each directive of the list, in list order
RECURSIVE ApplyToSubset(_, _)
ApplyToSubset(g, arcs) ==
    IF arcs = <<>> THEN g
    ELSE ApplyToSubset(BacklinkApply(g, Head(arcs).id, Head(arcs)), Tail(arcs))

\* the (file, id) entries of the Store
StoreEntries(st) == {e \in (DOMAIN st) \X StoreIds(st) : e[2] \in DOMAIN st[e[1]]}

\* the orders in which nested HashMap iteration can visit the Store: file by file
VisitOrders(st) ==
    {o \in Orderings(StoreEntries(st)) :
        \A i, j, k \in DOMAIN o : (i < j /\ j < k /\ o[i][1] = o[k][1]) => o[j][1] = o[i][1]}

\* apply_to_all without the clearing step: the incoming links of the old graph are kept
ClearIncomingSkipped(g) == g

ClearIncoming(g) == [n \in DOMAIN g |-> [g[n] EXCEPT !.incoming_links = EmptyMap]]

\* apply_to_all, the Store visited in the order `order`
ApplyToAll(st, g, order) ==
    LET arcs == [i \in DOMAIN order |-> st[order[i][1]][order[i][2]]]
        kept == MapRetain(ClearIncoming(g), StoreIds(st))
    IN ApplyToSubset(kept, arcs)

(***************************************************************************)
(* remove_links_for_ids (link_data.rs)                                     *)
(***************************************************************************)

\* Phase 1: (target, backlink field, source) for every outgoing link of a removed
\* node whose target is not removed in the same batch
IncomingLinkUpdates(g, ids_to_remove) ==
    UNION {UNION {{<<g[r].outgoing_links[f][k], BackName(f), r>> :
                      k \in {x \in DOMAIN g[r].outgoing_links[f] :
                                g[r].outgoing_links[f][x] \notin ids_to_remove}} :
                  f \in DOMAIN g[r].outgoing_links} :
           r \in ids_to_remove \cap DOMAIN g}

\* the incoming_links of node t after the updates: each named source is taken out
\* of its list, and a list that an update leaves empty is removed from the map
UpdatedIncoming(incoming, t, updates) ==
    LET Gone(bf) == {u[3] : u \in {v \in updates : v[1] = t /\ v[2] = bf}}
        Retained(bf) == LET Keep(id) == id \notin Gone(bf) IN SelectSeq(incoming[bf], Keep)
        keys == {bf \in DOMAIN incoming : Gone(bf) = {} \/ Retained(bf) # <<>>}
    IN [bf \in keys |-> Retained(bf)]

\* Phase 2: the removed nodes themselves leave the graph
remove_links_for_ids(g, ids_to_remove) ==
    LET updates == IncomingLinkUpdates(g, ids_to_remove)
        updated == [t \in DOMAIN g |->
                       [g[t] EXCEPT !.incoming_links = UpdatedIncoming(@, t, updates)]]
    IN MapRetain(updated, DOMAIN g \ ids_to_remove)

(***************************************************************************)
(* Processor::process_file: id generation (processor.rs)                   *)
(***************************************************************************)

IdKey == <<"i", "d">>

\* id generation without the filter on empty values
GenerateIdUnfiltered(canonical_source_file_str, directive, line_number) ==
    IF IdKey \in DOMAIN directive.options
    THEN Trim(directive.options[IdKey])
    ELSE canonical_source_file_str \o <<":">> \o directive.name \o <<":">> \o Decimal(line_number)

\* options.get("id").map(trim).filter(non-empty).unwrap_or_else(synthetic id)
GenerateId(canonical_source_file_str, directive, line_number) ==
    IF IdKey \in DOMAIN directive.options /\ Trim(directive.options[IdKey]) # <<>>
    THEN Trim(directive.options[IdKey])
    ELSE canonical_source_file_str \o <<":">> \o directive.name \o <<":">> \o Decimal(line_number)

\* the DirectiveWithSource built for one (directive, line_number) of the parser
MakeDws(canonical_path, parsed) ==
    [directive   |-> parsed.directive,
     source_file |-> PathStr(canonical_path),
     line_number |-> parsed.line_number,
     id          |-> GenerateId(PathStr(canonical_path), parsed.directive, parsed.line_number)]

\* process_file, from the parser's result on: one record per parsed directive, in order
ProcessParsed(canonical_path, parsed_seq) ==
    [i \in DOMAIN parsed_seq |-> MakeDws(canonical_path, parsed_seq[i])]

(***************************************************************************)
(* Aggregator::create_directive_outputs (aggregator.rs)                    *)
(***************************************************************************)

\* options.insert(backlink_field_name, source_ids.join(",")) for the non-empty lists
RECURSIVE InsertBacklinks(_, _, _)
InsertBacklinks(options, incoming, keys) ==
    IF keys = {} THEN options
    ELSE LET bf == CHOOSE k \in keys : TRUE
             next == IF incoming[bf] # <<>>
                     THEN MapPut(options, bf, Join(incoming[bf], <<",">>))
                     ELSE options
         IN InsertBacklinks(next, incoming, keys \ {bf})

\* a variant of the output record: the backlink keys are made from the node's own outgoing links
DirectiveOutputFromOutgoing(dws, g) ==
    [name        |-> dws.directive.name,
     arguments   |-> dws.directive.arguments,
     options     |-> IF dws.id \in DOMAIN g
                     THEN InsertBacklinks(dws.directive.options,
                                          [b \in {BackName(f) : f \in DOMAIN g[dws.id].outgoing_links} |->
                                              g[dws.id].outgoing_links[CHOOSE f \in DOMAIN g[dws.id].outgoing_links : BackName(f) = b]],
                                          {BackName(f) : f \in DOMAIN g[dws.id].outgoing_links})
                     ELSE dws.directive.options,
     content     |-> dws.directive.content,
     source_file |-> dws.source_file,
     line_number |-> dws.line_number,
     id          |-> dws.id]

DirectiveOutput(dws, g) ==
    [name        |-> dws.directive.name,
     arguments   |-> dws.directive.arguments,
     options     |-> IF dws.id \in DOMAIN g
                     THEN InsertBacklinks(dws.directive.options, g[dws.id].incoming_links,
                                          DOMAIN g[dws.id].incoming_links)
                     ELSE dws.directive.options,
     content     |-> dws.directive.content,
     source_file |-> dws.source_file,
     line_number |-> dws.line_number,
     id          |-> dws.id]

create_directive_outputs(st, g) ==
    {DirectiveOutput(st[f][i], g) : <<f, i>> \in StoreEntries(st)}

(***************************************************************************)
(* The inputs of the model: paths, and what the parser returns for a file  *)
(***************************************************************************)

\* the longest list of paths one watch event carries
MaxPaths == 2

RstName(c) == <<c, ".", "r", "s", "t">>

DirD  == << <<"d">> >>
DirE  == << <<"e">> >>
PathX == << <<"d">>, RstName("x") >>
PathY == << <<"e">>, RstName("y") >>
PathN == << <<"d">>, <<"n", ".", "t", "x", "t">> >>

\* cli.extensions, default "rst,py,cpp"
Extensions == {<<"r", "s", "t">>, <<"p", "y">>, <<"c", "p", "p">>}

WatchedFiles == {PathX, PathY}
ModifyPaths  == {PathX, PathY, PathN}
RemovePaths  == {PathX, PathY, DirD, DirE}

ReqName == <<"r", "e", "q">>

\* the longest text given to process_file, in lines
MaxLines == 3

LineOpenD          == <<".", ".", " ", "d", ":", ":">>
LineOpenDIndented  == <<" ", " ", ".", ".", " ", "d", ":", ":">>
LineOpenDAfterText == <<"x", " ", ".", ".", " ", "d", ":", ":", " ", "t">>
LineOpenDx         == <<".", ".", " ", "d", "x", ":", ":">>
LineOpenXd         == <<".", ".", " ", "x", "d", ":", ":">>
LineBlank          == <<>>
LineId             == <<" ", " ", ":", "i", "d", ":", " ", "a">>
LineIdBlank        == <<" ", " ", ":", "i", "d", ":", " ", " ">>
LineBody           == <<" ", " ", "t">>
LineSpaces         == <<" ", " ">>
LineTwoOpenings    == <<"x", " ", ".", ".", " ", "d", ":", ":", " ", ".", ".", " ", "d", ":", ":">>
LineOpenDNonAscii  == <<".", ".", " ", "d", ":", ":", Utf8Lead, Utf8Continuation>>

LineChoices ==
    {LineOpenD, LineOpenDIndented, LineOpenDAfterText, LineOpenDx, LineOpenXd,
     LineBlank, LineId, LineIdBlank, LineBody}

\* lines for the layout of a text: several openings on a line, blank and
\* whitespace-only lines, a non-ASCII character after the marker
LayoutLineChoices ==
    {LineOpenD, LineOpenDAfterText, LineTwoOpenings, LineOpenDNonAscii,
     LineBlank, LineSpaces, LineBody}

LayoutTexts(max) ==
    UNION {{Join(ls, <<"\n">>) : ls \in [1..n -> LayoutLineChoices]} : n \in 0..max}

\* the longest body of a directive, in lines after the directive line
MaxBodyLines == 3

LineOptionDeep    == <<" ", " ", " ", " ", ":", "m", ":", " ", "w">>
LineDeep          == <<" ", " ", " ", " ", "c">>
LineMalformed     == <<" ", " ", ":", "b">>
LineTextLeft      == <<"x">>
LineCandidateDeep == <<" ", " ", " ", " ", ".", ".", " ", "x", ":", ":">>
LineOpenSpaced    == <<".", ".", " ", " ", "d", ":", ":">>

\* the lines of a directive body: options at two depths, an option with an empty
\* first fragment, a malformed option, text at three depths, blank and
\* whitespace-only lines, and opening lines of the target name, of another name
\* and with two spaces after the dots
BodyLineChoices ==
    {LineId, LineIdBlank, LineOptionDeep, LineMalformed, LineBody, LineDeep,
     LineTextLeft, LineBlank, LineSpaces, LineOpenD, LineCandidateDeep, LineOpenSpaced}

\* the directive line `.. d::` followed by at most max body lines
BodyTexts(max) ==
    UNION {{Join(<<LineOpenD>> \o ls, <<"\n">>) : ls \in [1..n -> BodyLineChoices]} :
              n \in 0..max}

\* the directive line, an option and the blank line that ends the options, followed
\* by max - 1 body lines: the block indentation is set by the option line
BodyTextsAfterOptions(max) ==
    {Join(<<LineOpenD, LineId, LineBlank>> \o ls, <<"\n">>) :
        ls \in [1..(max - 1) -> BodyLineChoices]}

\* the texts of at most MaxLines lines, the lines separated by line feeds
Texts(max) == UNION {{Join(ls, <<"\n">>) : ls \in [1..n -> LineChoices]} : n \in 0..max}

\* cli.directives
TargetLists == {<< <<"d">> >>, << <<"d", "x">>, <<"d">> >>}

\* the files process_file is called on
SourceFiles == {PathX, PathN}

\* the longest C/C++ file, in lines
MaxCppLines == 4

CppOpen      == <<"/", "/", "/", " ", "@", "r", "s", "t">>
CppOpenBare  == <<"/", "/", "@", "r", "s", "t">>
CppClose     == <<"/", "/", " ", "@", "e", "n", "d", "r", "s", "t">>
CppDirective == <<"/", "/", "/", " ", ".", ".", " ", "d", ":", ":">>
CppText      == <<"/", "/", "/", "t">>
CppCode      == <<"i", "n", "t", " ", "x", ";">>
CppBlank     == <<>>
CppSingle    == <<"/", "/", "/", " ", "@", "r", "s", "t", " ", ".", ".", " ", "d", ":", ":", " ",
                 "@", "e", "n", "d", "r", "s", "t">>

CppLineChoices ==
    {CppOpen, CppOpenBare, CppClose, CppDirective, CppText, CppCode, CppBlank, CppSingle}

CppTexts(max) ==
    UNION {{Join(ls, <<"\n">>) : ls \in [1..n -> CppLineChoices]} : n \in 0..max}

\* the longest Python file, in fragments
MaxPyParts == 5

PyPair == <<"@", "r", "s", "t", "\n", ".", ".", " ", "d", ":", ":", "\n",
            "@", "e", "n", "d", "r", "s", "t">>
PyOpen == <<"@", "r", "s", "t", " ", "t", "\n">>

\* a closed docstring in single quotes holding one block
PyPairDoc == TRIPLE_SINGLE_QUOTE \o PyPair \o TRIPLE_SINGLE_QUOTE

PyPartChoices == {TRIPLE_DOUBLE_QUOTE, PyPair, PyOpen, PyPairDoc}

RECURSIVE Concat(_)
Concat(parts) == IF parts = <<>> THEN <<>> ELSE Head(parts) \o Concat(Tail(parts))

PyTexts(max) ==
    UNION {{Concat(ps) : ps \in [1..n -> PyPartChoices]} : n \in 0..max}

\* the directive names searched in C/C++ and Python files
CodeTargets == << <<"d">> >>

PathCpp == << <<"d">>, <<"x", ".", "c", "p", "p">> >>
PathPy  == << <<"d">>, <<"x", ".", "p", "y">> >>

\* file names with every extension of the dispatch, with other extensions, with
\* upper-case letters and without extension
DispatchNames ==
    {<<"x", ".", "r", "s", "t">>, <<"x", ".", "R", "S", "T">>, <<"x", ".", "p", "y">>,
     <<"x", ".", "P", "y">>, <<"x", ".", "c", "p", "p">>, <<"x", ".", "C", "p", "p">>,
     <<"x", ".", "h">>, <<"x", ".", "h", "p", "p">>, <<"x", ".", "c", "x", "x">>,
     <<"x", ".", "h", "x", "x">>, <<"x", ".", "c", "c">>, <<"x", ".", "h", "h">>,
     <<"x", ".", "t", "x", "t">>, <<"p", "y">>, <<".", "r", "s", "t">>}

DispatchFiles == {<< <<"d">>, n >> : n \in DispatchNames}

\* the longest file given to the dispatch, in lines
MaxDispatchLines == 2

PySingle == <<"\"", "\"", "\"", "@", "r", "s", "t", " ", "w", "@", "e", "n", "d", "r", "s", "t",
              "\"", "\"", "\"">>

DispatchTexts(max) ==
    UNION {{Join(ls, <<"\n">>) : ls \in [1..n -> {CppSingle, PySingle, LineOpenD}]} :
              n \in 0..max}

Parsed(options, line) ==
    [directive   |-> [name |-> ReqName, arguments |-> <<>>, options |-> options, content |-> <<>>],
     line_number |-> line]

\* :id: a / :l: b / :k: v
ParsedA1 == Parsed((IdKey :> <<"a">>) @@ (<<"l">> :> <<"b">>) @@ (<<"k">> :> <<"v">>), 1)
\* :id: a / :l: c,, c / :m: b      (an empty fragment, a repeated target, a second field)
ParsedA2 == Parsed((IdKey :> <<"a">>) @@ (<<"l">> :> <<"c", ",", ",", " ", "c">>) @@ (<<"m">> :> <<"b">>), 5)
\* :id: b / :l: a,b                (a target and a self-reference)
ParsedB1 == Parsed((IdKey :> <<"b">>) @@ (<<"l">> :> <<"a", ",", "b">>), 1)
\* :id: b / :k: v                  (no link field)
ParsedB2 == Parsed((IdKey :> <<"b">>) @@ (<<"k">> :> <<"v">>), 1)
\* :id: c / :l: " , "              (a link field with no target)
ParsedC1 == Parsed((IdKey :> <<"c">>) @@ (<<"l">> :> <<" ", ",", " ">>), 9)
\* no :id: / :l: b                 (synthetic id)
ParsedS1 == Parsed((<<"l">> :> <<"b">>), 3)

\* what parse_rst_multiple may return for a file
ParsedChoices ==
    {<<>>, <<ParsedA1>>, <<ParsedB1>>, <<ParsedB2>>, <<ParsedA2, ParsedC1>>,
     <<ParsedA1, ParsedA2>>, <<ParsedB2, ParsedS1>>}

\* the result of process_file_watch for one path: Err, or Ok(the parsed directives)
ReadOutcomes == {[ok |-> FALSE, parsed |-> <<>>]} \cup {[ok |-> TRUE, parsed |-> c] : c \in ParsedChoices}

\* event.paths: up to MaxPaths distinct paths of S
PathLists(S) ==
    UNION {{l \in [1..n -> S] : \A i, j \in 1..n : i # j => l[i] # l[j]} : n \in 1..MaxPaths}

(***************************************************************************)
(* The Store (main.rs)                                                     *)
(***************************************************************************)

\* file_map.insert(dws.id, arc) for each directive in order: the last one of an id stays
RECURSIVE FileMap(_)
FileMap(dws_seq) ==
    IF dws_seq = <<>> THEN EmptyMap
    ELSE LET last == dws_seq[Len(dws_seq)]
         IN MapPut(FileMap(SubSeq(dws_seq, 1, Len(dws_seq) - 1)), last.id, last)

DistinctIds(dws_seq) == \A i, j \in DOMAIN dws_seq : i # j => dws_seq[i].id # dws_seq[j].id

\* no id is a key of two files' maps
StoreUnique(st) == \A f, h \in DOMAIN st : f # h => DOMAIN st[f] \cap DOMAIN st[h] = {}

(***************************************************************************)
(* The watch loop: one event (main.rs)                                     *)
(***************************************************************************)

\* the handler's locals after the `match event.kind` block
NewLocals(st) ==
    [store |-> st, ids_to_clear_from_graph |-> {}, affected_ids_for_neighbor_scan |-> {},
     arcs_for_subset_application |-> <<>>, changed_anything_globally |-> FALSE,
     all_distinct |-> TRUE]

\* relevant_event_paths: the paths whose extension is one of cli.extensions
RelevantEventPaths(paths) ==
    LET Matches(q) == HasExtension(q) /\ Extension(q) \in Extensions
    IN SelectSeq(paths, Matches)

\* Create / Modify, one path: collect the old ids, then re-process the file
ProcessPath(loc, canonical_path, outcome) ==
    LET old_ids == IF canonical_path \in DOMAIN loc.store THEN DOMAIN loc.store[canonical_path] ELSE {}
        collected == [loc EXCEPT !.ids_to_clear_from_graph = @ \cup old_ids,
                                 !.affected_ids_for_neighbor_scan = @ \cup old_ids]
        dws_seq == ProcessParsed(canonical_path, outcome.parsed)
        new_ids == {dws_seq[i].id : i \in DOMAIN dws_seq}
    IN IF outcome.ok
       THEN [collected EXCEPT
                !.store = MapPut(@, canonical_path, FileMap(dws_seq)),
                !.arcs_for_subset_application = @ \o dws_seq,
                !.ids_to_clear_from_graph = @ \cup new_ids,
                !.affected_ids_for_neighbor_scan = @ \cup new_ids,
                !.changed_anything_globally = TRUE,
                !.all_distinct = @ /\ DistinctIds(dws_seq)]
       ELSE collected

RECURSIVE ProcessPaths(_, _, _)
ProcessPaths(loc, paths, outcomes) ==
    IF paths = <<>> THEN loc
    ELSE ProcessPaths(ProcessPath(loc, Head(paths), Head(outcomes)), Tail(paths), Tail(outcomes))

\* Remove, one path, by equality alone: the keys under a removed directory stay
RemovePathExact(loc, path_key_candidate) ==
    LET keys_to_remove_from_map == {k \in DOMAIN loc.store : k = path_key_candidate}
        ids == UNION {DOMAIN loc.store[k] : k \in keys_to_remove_from_map}
    IN IF keys_to_remove_from_map = {} THEN loc
       ELSE [loc EXCEPT
                !.store = MapRetain(@, DOMAIN @ \ keys_to_remove_from_map),
                !.ids_to_clear_from_graph = @ \cup ids,
                !.affected_ids_for_neighbor_scan = @ \cup ids,
                !.changed_anything_globally = TRUE]

\* Remove, one path: drop every Store key that equals the path or lies under it
RemovePath(loc, path_key_candidate) ==
    LET keys_to_remove_from_map ==
            {k \in DOMAIN loc.store : k = path_key_candidate \/ StartsWith(k, path_key_candidate)}
        ids == UNION {DOMAIN loc.store[k] : k \in keys_to_remove_from_map}
    IN IF keys_to_remove_from_map = {} THEN loc
       ELSE [loc EXCEPT
                !.store = MapRetain(@, DOMAIN @ \ keys_to_remove_from_map),
                !.ids_to_clear_from_graph = @ \cup ids,
                !.affected_ids_for_neighbor_scan = @ \cup ids,
                !.changed_anything_globally = TRUE]

RECURSIVE RemovePathsAll(_, _)
RemovePathsAll(loc, paths) ==
    IF paths = <<>> THEN loc
    ELSE RemovePathsAll(RemovePath(loc, Head(paths)), Tail(paths))

\* the neighbour scan: the graph nodes outside the affected ids that link to one
NeighborIds(g, affected) ==
    {source_id \in DOMAIN g \ affected :
        \E f \in DOMAIN g[source_id].outgoing_links :
            \E k \in DOMAIN g[source_id].outgoing_links[f] :
                g[source_id].outgoing_links[f][k] \in affected}

\* neighbor_arcs_to_reprocess, in one of the orders its iteration can take: each
\* neighbour found in the Store, with the record of one of the files that hold its id
NeighborArcSeqs(g, st, affected) ==
    LET found == NeighborIds(g, affected) \cap StoreIds(st)
        picks == {pk \in [found -> DOMAIN st] : \A id \in found : id \in DOMAIN st[pk[id]]}
    IN {[i \in DOMAIN o |-> st[pk[o[i]]][o[i]]] : o \in Orderings(found), pk \in picks}

\* neighbours join the list unless a directive of the same id is already on it
RECURSIVE AddNeighbors(_, _)
AddNeighbors(arcs, neighbor_arcs) ==
    IF neighbor_arcs = <<>> THEN arcs
    ELSE LET a == Head(neighbor_arcs)
             next == IF \E i \in DOMAIN arcs : arcs[i].id = a.id THEN arcs ELSE Append(arcs, a)
         IN AddNeighbors(next, Tail(neighbor_arcs))

\* if changed_anything_globally: clear, re-apply, final cleanup
IncrementalUpdate(g, loc, neighbor_arcs) ==
    LET arcs == AddNeighbors(loc.arcs_for_subset_application, neighbor_arcs)
        cleared == IF loc.ids_to_clear_from_graph # {}
                   THEN remove_links_for_ids(g, loc.ids_to_clear_from_graph)
                   ELSE g
        applied == IF arcs # <<>> THEN ApplyToSubset(cleared, arcs) ELSE cleared
    IN MapRetain(applied, StoreIds(loc.store))

\* the tail of the handler, shared by the event kinds
Handled(loc, op) ==
    IF loc.changed_anything_globally
    THEN \E neighbor_arcs \in NeighborArcSeqs(link_graph, loc.store, loc.affected_ids_for_neighbor_scan) :
            /\ store' = loc.store
            /\ link_graph' = IncrementalUpdate(link_graph, loc, neighbor_arcs)
            /\ emitted' = create_directive_outputs(store', link_graph')
            /\ lastOp' = op
            /\ idsUnique' = (idsUnique /\ loc.all_distinct /\ StoreUnique(loc.store))
            /\ UNCHANGED phase
    ELSE /\ lastOp' = "ignored"
         /\ UNCHANGED <<store, link_graph, emitted, phase, idsUnique>>

(***************************************************************************)
(* Actions                                                                 *)
(***************************************************************************)

\* process_files has not been called
NoBatch == [called |-> FALSE]

\* rx.recv() has not returned an event, or the event has been handled
NoEvent == [kind |-> "none"]

Init ==
    /\ store = EmptyMap
    /\ link_graph = EmptyMap
    /\ emitted = {}
    /\ phase = "start"
    /\ lastOp = "none"
    /\ idsUnique = TRUE
    /\ rst_file = <<>>
    /\ file_content = <<>>
    /\ target_directives = <<>>
    /\ extracted_blocks = <<>>
    /\ rst_content = <<>>
    /\ located = <<>>
    /\ records = <<>>
    /\ proc = "idle"
    /\ file_paths = <<>>
    /\ batch = NoBatch
    /\ event = NoEvent
    /\ locals = NewLocals(EmptyMap)
    /\ handler_pc = "recv"
    /\ emit_pc = "idle"
    /\ store_lock = "free"
    /\ link_graph_lock = "free"
    /\ observed = "none"

\* watch mode, initial scan: process the files found, full rebuild, first emit
InitialScan ==
    /\ phase = "start"
    /\ \E found \in SUBSET WatchedFiles :
         \E contents \in [found -> ParsedChoices] :
            LET st == [f \in found |-> FileMap(ProcessParsed(f, contents[f]))]
            IN \E order \in VisitOrders(st) :
                 /\ store' = st
                 /\ link_graph' = ApplyToAll(st, EmptyMap, order)
                 /\ emitted' = create_directive_outputs(store', link_graph')
                 /\ idsUnique' = (StoreUnique(st) /\
                                  \A f \in found : DistinctIds(ProcessParsed(f, contents[f])))
    /\ phase' = "watch"
    /\ lastOp' = "scan"
    /\ UNCHANGED <<procVars, batchVars, lockVars>>

\* a file of the initial scan cannot be processed: process::exit(1)
InitialScanFails ==
    /\ phase = "start"
    /\ phase' = "exited"
    /\ lastOp' = "exit"
    /\ UNCHANGED <<store, link_graph, emitted, idsUnique>>
    /\ UNCHANGED <<procVars, batchVars, lockVars>>

\* EventKind::Create(_) | EventKind::Modify(_)
EventCreateModify ==
    /\ phase = "watch"
    /\ \E paths \in PathLists(ModifyPaths) :
         LET relevant == RelevantEventPaths(paths)
         IN IF relevant = <<>>
            THEN /\ lastOp' = "ignored"
                 /\ UNCHANGED <<store, link_graph, emitted, phase, idsUnique>>
            ELSE \E outcomes \in [DOMAIN relevant -> ReadOutcomes] :
                    Handled(ProcessPaths(NewLocals(store), relevant, outcomes), "modify")
    /\ UNCHANGED <<procVars, batchVars, lockVars>>

\* EventKind::Remove(_)
EventRemove ==
    /\ phase = "watch"
    /\ \E paths \in PathLists(RemovePaths) :
         Handled(RemovePathsAll(NewLocals(store), paths), "remove")
    /\ UNCHANGED <<procVars, batchVars, lockVars>>

\* any other event kind
EventOther ==
    /\ phase = "watch"
    /\ lastOp' = "ignored"
    /\ UNCHANGED <<store, link_graph, emitted, phase, idsUnique>>
    /\ UNCHANGED <<procVars, batchVars, lockVars>>

Next == InitialScan \/ InitialScanFails \/ EventCreateModify \/ EventRemove \/ EventOther

Spec == Init /\ [][Next]_vars

\* the library's full rebuild, called on the watch loop's Store and graph
FullRebuild ==
    /\ phase = "watch"
    /\ \E order \in VisitOrders(store) :
         link_graph' = ApplyToAll(store, link_graph, order)
    /\ emitted' = create_directive_outputs(store, link_graph')
    /\ lastOp' = "rebuild"
    /\ UNCHANGED <<store, phase, idsUnique>>
    /\ UNCHANGED <<procVars, batchVars, lockVars>>

NextRebuild == Next \/ FullRebuild

SpecRebuild == Init /\ [][NextRebuild]_vars

\* Processor::process_file on the file f with the content read from it: extract,
\* parse, generate the ids; the parser's cursor leaving a character boundary aborts
ProcessFileWith(f, names, content) ==
    LET blocks == extracted_blocks_of(f, content)
        extracted == IF FileKind(f) \in {"cpp", "py"}
                     THEN JoinBlocks(blocks)
                     ELSE extract_from_file(f, content)
    IN /\ rst_file' = f
       /\ file_content' = content
       /\ target_directives' = names
       /\ extracted_blocks' = blocks
       /\ rst_content' = extracted
       /\ IF ParsePanics(extracted, names)
          THEN /\ proc' = "panicked"
               /\ UNCHANGED <<located, records>>
          ELSE LET found == directives_with_positions_and_lines(extracted, names)
               IN /\ located' = found
                  /\ records' = ProcessParsed(f, StripPositions(found))
                  /\ proc' = "done"
       /\ UNCHANGED <<store, link_graph, emitted, phase, lastOp, idsUnique>>
       /\ UNCHANGED <<batchVars, lockVars>>

\* Processor::process_file on one .rst file or file of an unsupported type
ProcessFile ==
    /\ proc = "idle"
    /\ \E f \in SourceFiles, names \in TargetLists, content \in Texts(MaxLines) :
          ProcessFileWith(f, names, content)

\* fs::canonicalize or fs::read_to_string fails: Err, no record
ProcessFileFails ==
    /\ proc = "idle"
    /\ \E f \in SourceFiles, names \in TargetLists :
         /\ rst_file' = f
         /\ target_directives' = names
    /\ proc' = "failed"
    /\ UNCHANGED <<store, link_graph, emitted, phase, lastOp, idsUnique>>
    /\ UNCHANGED <<file_content, extracted_blocks, rst_content, located, records>>
    /\ UNCHANGED <<batchVars, lockVars>>

NextProcess == ProcessFile \/ ProcessFileFails

SpecProcess == Init /\ [][NextProcess]_vars

\* Processor::process_file on one .rst file, for the layout of its text
ProcessLayoutFile ==
    /\ proc = "idle"
    /\ \E names \in TargetLists, content \in LayoutTexts(MaxLines) : ProcessFileWith(PathX, names, content)

SpecLayout == Init /\ [][ProcessLayoutFile]_vars

\* Processor::process_file on one .rst file, for the body of its first directive
ProcessBodyFile ==
    /\ proc = "idle"
    /\ \E content \in BodyTexts(MaxBodyLines) \cup BodyTextsAfterOptions(MaxBodyLines) :
           ProcessFileWith(PathX, << <<"d">> >>, content)

SpecBody == Init /\ [][ProcessBodyFile]_vars

\* Processor::process_file on one C/C++ file
ProcessCppFile ==
    /\ proc = "idle"
    /\ \E content \in CppTexts(MaxCppLines) : ProcessFileWith(PathCpp, CodeTargets, content)

SpecCpp == Init /\ [][ProcessCppFile]_vars

\* the same files, checked for the comment prefixes
SpecCppPrefixes == Init /\ [][ProcessCppFile]_vars

\* Processor::process_file on one Python file
ProcessPyFile ==
    /\ proc = "idle"
    /\ \E content \in PyTexts(MaxPyParts) : ProcessFileWith(PathPy, CodeTargets, content)

SpecPy == Init /\ [][ProcessPyFile]_vars

\* Processor::process_file on one file of any name
ProcessAnyFile ==
    /\ proc = "idle"
    /\ \E f \in DispatchFiles, content \in DispatchTexts(MaxDispatchLines) :
          ProcessFileWith(f, CodeTargets, content)

SpecDispatch == Init /\ [][ProcessAnyFile]_vars

\* the longest file given to the extractor for the shape of its blocks, in
\* lines (C/C++) or fragments of one docstring (Python)
MaxBlockLines == 3

CppEmptyComment  == <<"/", "/", "/">>
CppDeep          == <<"/", "/", "/", " ", " ", " ", "t">>
CppSingleSpaced  == <<"/", "/", "/", " ", "@", "r", "s", "t", " ", " ", " ", "t", " ",
                     "@", "e", "n", "d", "r", "s", "t">>
CppSingleEmpty   == <<"/", "/", "/", " ", "@", "r", "s", "t", " ", "@", "e", "n", "d", "r", "s", "t">>
CppSingleText    == <<"/", "/", "/", " ", "@", "r", "s", "t", " ", "t", " ",
                     "@", "e", "n", "d", "r", "s", "t">>

CppBlockLineChoices ==
    {CppOpen, CppClose, CppEmptyComment, CppDeep, CppText, CppSingleSpaced, CppSingleEmpty,
     CppSingleText}

\* the C/C++ files of at most max comment lines
CppBlockTexts(max) ==
    UNION {{Join(ls, <<"\n">>) : ls \in [1..n -> CppBlockLineChoices]} : n \in 0..max}

PyBlockPartChoices ==
    {RST_START_MARKER, RST_END_MARKER, <<"\n">>, <<" ", " ", "t">>, <<" ">>}

\* the Python files made of one docstring of at most max fragments
PyBlockTexts(max) ==
    UNION {{TRIPLE_DOUBLE_QUOTE \o Concat(ps) \o TRIPLE_DOUBLE_QUOTE :
               ps \in [1..n -> PyBlockPartChoices]} : n \in 0..max}

\* Processor::process_file on one C/C++ or Python file, for the shape of its blocks
ProcessBlockFile ==
    /\ proc = "idle"
    /\ \/ \E content \in CppBlockTexts(MaxBlockLines) : ProcessFileWith(PathCpp, CodeTargets, content)
       \/ \E content \in PyBlockTexts(MaxBlockLines) : ProcessFileWith(PathPy, CodeTargets, content)

SpecBlocks == Init /\ [][ProcessBlockFile]_vars

\* the longest Python file given to the docstring scan, in fragments
MaxQuoteParts == 5

PyInline == <<"@", "r", "s", "t", " ", "w", "@", "e", "n", "d", "r", "s", "t">>

PyQuotePartChoices ==
    {TRIPLE_DOUBLE_QUOTE, TRIPLE_SINGLE_QUOTE, PyInline, RST_START_MARKER, RST_END_MARKER}

\* the Python files of at most max fragments: delimiters of both kinds and markers
PyQuoteTexts(max) ==
    UNION {{Concat(ps) : ps \in [1..n -> PyQuotePartChoices]} : n \in 0..max}

\* Processor::process_file on one Python file, for the scan of its docstrings
ProcessQuoteFile ==
    /\ proc = "idle"
    /\ \E content \in PyQuoteTexts(MaxQuoteParts) : ProcessFileWith(PathPy, CodeTargets, content)

SpecQuotes == Init /\ [][ProcessQuoteFile]_vars

(***************************************************************************)
(* Processor::process_files (processor.rs)                                 *)
(***************************************************************************)

\* what the file system answers for one file of the batch: canonicalize fails,
\* read_to_string fails, or the content read
Unresolvable == [read |-> "canonicalize"]
Unreadable   == [read |-> "read_to_string"]
Read(content) == [read |-> "ok", content |-> content]

\* the text of an error, the fixed words of a message being one token each
IoErrorText == <<"No such file or directory (os error 2)">>

\* process_file(file_path).map_err(|e| e.to_string())
process_file(f, names, answer) ==
    IF answer.read = "canonicalize"
    THEN [kind |-> "err",
          e_str |-> <<"Failed to canonicalize path ">> \o PathStr(f) \o <<": ">> \o IoErrorText]
    ELSE IF answer.read = "read_to_string"
    THEN [kind |-> "err", e_str |-> IoErrorText]
    ELSE LET extracted == extract_from_file(f, answer.content)
         IN IF ParsePanics(extracted, names) THEN [kind |-> "panic"]
            ELSE [kind |-> "ok",
                  directives |-> ProcessParsed(f, parse_rst_multiple(extracted, names))]

\* all_directives.extend(directives) for the Ok results, in the order of the files
RECURSIVE AllDirectives(_)
AllDirectives(results) ==
    IF results = <<>> THEN <<>>
    ELSE (IF Head(results).kind = "ok" THEN Head(results).directives ELSE <<>>)
         \o AllDirectives(Tail(results))

\* errors_accumulator.push(e_str) for the Err results, in the order of the files
RECURSIVE ErrorsAccumulator(_)
ErrorsAccumulator(results) ==
    IF results = <<>> THEN <<>>
    ELSE (IF Head(results).kind = "err" THEN <<Head(results).e_str>> ELSE <<>>)
         \o ErrorsAccumulator(Tail(results))

\* process_files: every file is processed; Err with the joined errors when a
\* file failed, Ok with the directives of all files otherwise; a panic of one
\* file's closure is the panic of the call
process_files(paths, names, answers) ==
    LET results == [i \in DOMAIN paths |-> process_file(paths[i], names, answers[i])]
        errors_accumulator == ErrorsAccumulator(results)
    IN IF \E i \in DOMAIN results : results[i].kind = "panic"
       THEN [called |-> TRUE, kind |-> "panic"]
       ELSE IF errors_accumulator # <<>>
       THEN [called |-> TRUE, kind |-> "err",
             message |-> <<"Errors occurred while processing files: ">>
                         \o Join(errors_accumulator, <<"\n">>)]
       ELSE [called |-> TRUE, kind |-> "ok", directives |-> AllDirectives(results)]

\* the files of a batch and what reading them gives
BatchPaths == {PathX, PathY, PathN}

BatchAnswers ==
    {Unresolvable, Unreadable, Read(<<>>), Read(LineOpenD),
     Read(Join(<<LineOpenD, LineId, LineOpenD>>, <<"\n">>)), Read(LineOpenDNonAscii)}

\* non-watch mode: process_files on the files found
ProcessFiles ==
    /\ batch = NoBatch
    /\ \E paths \in PathLists(BatchPaths) :
         \E answers \in [DOMAIN paths -> BatchAnswers] :
            /\ file_paths' = [i \in DOMAIN paths |-> [path |-> paths[i], answer |-> answers[i]]]
            /\ batch' = process_files(paths, << <<"d">> >>, answers)
    /\ UNCHANGED <<store, link_graph, emitted, phase, lastOp, idsUnique>>
    /\ UNCHANGED <<procVars, lockVars>>

SpecBatch == Init /\ [][ProcessFiles]_vars

(***************************************************************************)
(* The watch loop and the emitter, lock by lock (main.rs, aggregator.rs)   *)
(***************************************************************************)

\* a path through `l`, a symbolic link to the directory d
PathLinkX == << <<"l">>, RstName("x") >>

\* fs::canonicalize of a path that exists: symbolic links resolved
Canonical(p) == IF p # <<>> /\ Head(p) = <<"l">> THEN DirD \o Tail(p) ELSE p

\* match fs::canonicalize(removed_path_item_orig) { Ok(p) => p, Err(_) => the raw path }
PathKeyCandidate(ev) == IF ev.exists THEN Canonical(ev.path) ELSE ev.path

\* the events received while watching: the removal of one path, which may still
\* resolve when the handler runs, or an event of another kind
WatchEvents ==
    {[kind |-> "remove", path |-> p, exists |-> b] : p \in RemovePaths \cup {PathLinkX}, b \in BOOLEAN}
    \cup {[kind |-> "other"]}

\* the Mutexes in the order aggregate_to_json_from_map_with_links locks them
AggregateLockOrderReversed == <<"link_graph", "store">>

AggregateLockOrder == <<"store", "link_graph">>

\* mutex.lock() by a thread: blocks until the Mutex is free
Lock(mutex, thread) ==
    IF mutex = "store"
    THEN store_lock = "free" /\ store_lock' = thread /\ UNCHANGED link_graph_lock
    ELSE link_graph_lock = "free" /\ link_graph_lock' = thread /\ UNCHANGED store_lock

\* rx.recv() returns an event
HandlerRecv ==
    /\ phase = "watch"
    /\ handler_pc = "recv"
    /\ \E ev \in WatchEvents : event' = ev
    /\ handler_pc' = "lock_store"
    /\ UNCHANGED <<store, link_graph, emitted, phase, lastOp, idsUnique>>
    /\ UNCHANGED <<procVars, batchVars, locals, emit_pc, store_lock, link_graph_lock, observed>>

\* current_directives_with_source.lock()
HandlerLockStore ==
    /\ handler_pc = "lock_store"
    /\ Lock("store", "handler")
    /\ handler_pc' = "lock_graph"
    /\ UNCHANGED <<store, link_graph, emitted, phase, lastOp, idsUnique>>
    /\ UNCHANGED <<procVars, batchVars, event, locals, emit_pc, observed>>

\* link_graph_arc_watch.lock()
HandlerLockGraph ==
    /\ handler_pc = "lock_graph"
    /\ Lock("link_graph", "handler")
    /\ handler_pc' = "match"
    /\ UNCHANGED <<store, link_graph, emitted, phase, lastOp, idsUnique>>
    /\ UNCHANGED <<procVars, batchVars, event, locals, emit_pc, observed>>

\* match event.kind: the Store entries of a removed path are dropped
HandlerMatch ==
    /\ handler_pc = "match"
    /\ LET loc == IF event.kind = "remove"
                  THEN RemovePathsAll(NewLocals(store), <<PathKeyCandidate(event)>>)
                  ELSE NewLocals(store)
       IN /\ store' = loc.store
          /\ locals' = loc
          /\ handler_pc' = IF loc.changed_anything_globally THEN "update" ELSE "drop_graph"
          /\ lastOp' = IF loc.changed_anything_globally THEN lastOp ELSE "ignored"
    /\ UNCHANGED <<link_graph, emitted, phase, idsUnique>>
    /\ UNCHANGED <<procVars, batchVars, event, emit_pc, store_lock, link_graph_lock, observed>>

\* if changed_anything_globally: neighbour scan, clear, re-apply, final cleanup
HandlerUpdate ==
    /\ handler_pc = "update"
    /\ \E neighbor_arcs \in NeighborArcSeqs(link_graph, store, locals.affected_ids_for_neighbor_scan) :
          link_graph' = IncrementalUpdate(link_graph, locals, neighbor_arcs)
    /\ idsUnique' = (idsUnique /\ locals.all_distinct /\ StoreUnique(store))
    /\ lastOp' = "remove"
    /\ handler_pc' = "drop_graph"
    /\ UNCHANGED <<store, emitted, phase>>
    /\ UNCHANGED <<procVars, batchVars, event, locals, emit_pc, store_lock, link_graph_lock, observed>>

\* drop(link_graph_guard)
HandlerDropGraph ==
    /\ handler_pc = "drop_graph"
    /\ link_graph_lock' = "free"
    /\ handler_pc' = "drop_store"
    /\ UNCHANGED <<store, link_graph, emitted, phase, lastOp, idsUnique>>
    /\ UNCHANGED <<procVars, batchVars, event, locals, emit_pc, store_lock, observed>>

\* drop(global_directives_map_guard): the event is handled
HandlerDropStore ==
    /\ handler_pc = "drop_store"
    /\ store_lock' = "free"
    /\ event' = NoEvent
    /\ locals' = NewLocals(EmptyMap)
    /\ handler_pc' = "recv"
    /\ UNCHANGED <<store, link_graph, emitted, phase, lastOp, idsUnique>>
    /\ UNCHANGED <<procVars, batchVars, emit_pc, link_graph_lock, observed>>

\* aggregate_to_json_from_map_with_links is called: the first lock() of the call.
\* The call may start at any point of the handler, so that every interleaving
\* of the two is a behaviour
EmitLockFirst ==
    /\ phase = "watch"
    /\ emit_pc = "idle"
    /\ Lock(AggregateLockOrder[1], "emit")
    /\ emit_pc' = "lock_second"
    /\ UNCHANGED <<store, link_graph, emitted, phase, lastOp, idsUnique>>
    /\ UNCHANGED <<procVars, batchVars, event, locals, handler_pc, observed>>

\* the second lock() of the call
EmitLockSecond ==
    /\ emit_pc = "lock_second"
    /\ Lock(AggregateLockOrder[2], "emit")
    /\ emit_pc' = "build"
    /\ UNCHANGED <<store, link_graph, emitted, phase, lastOp, idsUnique>>
    /\ UNCHANGED <<procVars, batchVars, event, locals, handler_pc, observed>>

\* Self::create_directive_outputs(&directives_map_guard, &link_graph_guard)
EmitBuild ==
    /\ emit_pc = "build"
    /\ emitted' = create_directive_outputs(store, link_graph)
    /\ observed' = IF handler_pc = "update" THEN "half_applied" ELSE "settled"
    /\ emit_pc' = "drop_store"
    /\ UNCHANGED <<store, link_graph, phase, lastOp, idsUnique>>
    /\ UNCHANGED <<procVars, batchVars, event, locals, handler_pc, store_lock, link_graph_lock>>

\* drop(directives_map_guard)
EmitDropStore ==
    /\ emit_pc = "drop_store"
    /\ store_lock' = "free"
    /\ emit_pc' = "drop_graph"
    /\ UNCHANGED <<store, link_graph, emitted, phase, lastOp, idsUnique>>
    /\ UNCHANGED <<procVars, batchVars, event, locals, handler_pc, link_graph_lock, observed>>

\* drop(link_graph_guard); the output files are written from the records built
EmitDropGraph ==
    /\ emit_pc = "drop_graph"
    /\ link_graph_lock' = "free"
    /\ emit_pc' = "idle"
    /\ UNCHANGED <<store, link_graph, emitted, phase, lastOp, idsUnique>>
    /\ UNCHANGED <<procVars, batchVars, event, locals, handler_pc, store_lock, observed>>

NextWatch ==
    \/ InitialScan
    \/ HandlerRecv \/ HandlerLockStore \/ HandlerLockGraph \/ HandlerMatch
    \/ HandlerUpdate \/ HandlerDropGraph \/ HandlerDropStore
    \/ EmitLockFirst \/ EmitLockSecond \/ EmitBuild \/ EmitDropStore \/ EmitDropGraph

SpecWatch == Init /\ [][NextWatch]_vars

(***************************************************************************)
(* Vocabulary of the claims                                                *)
(***************************************************************************)

LinkFields == Range(LinkTypes)

\* s is on the backlink list of field f at node t
HasIncoming(g, t, f, s) ==
    /\ t \in DOMAIN g
    /\ BackName(f) \in DOMAIN g[t].incoming_links
    /\ Contains(g[t].incoming_links[BackName(f)], s)

\* t is on the outgoing list of field f at node s
HasOutgoing(g, s, f, t) ==
    /\ s \in DOMAIN g
    /\ f \in DOMAIN g[s].outgoing_links
    /\ Contains(g[s].outgoing_links[f], t)

\* every id the graph mentions, as a node or on a list
GraphIds(g) ==
    DOMAIN g \cup
    UNION {UNION {Range(g[n].outgoing_links[f]) : f \in DOMAIN g[n].outgoing_links} : n \in DOMAIN g} \cup
    UNION {UNION {Range(g[n].incoming_links[b]) : b \in DOMAIN g[n].incoming_links} : n \in DOMAIN g}

\* every incoming key is the backlink name of a configured field
IncomingKeysConfigured(g) ==
    \A t \in DOMAIN g : DOMAIN g[t].incoming_links \subseteq {BackName(f) : f \in LinkFields}

Symmetric(g) ==
    /\ IncomingKeysConfigured(g)
    /\ \A s \in GraphIds(g), t \in GraphIds(g), f \in LinkFields :
          s # t => (HasOutgoing(g, s, f, t) <=> HasIncoming(g, t, f, s))

\* the record of id in the Store (the ids being unique)
DwsOf(st, id) == st[CHOOSE f \in DOMAIN st : id \in DOMAIN st[f]][id]

\* the targets listed in option f of a directive
ListedTargets(dws, f) ==
    IF f \in DOMAIN dws.directive.options
    THEN Range(CurrentTargetIds(dws.directive.options[f]))
    ELSE {}

BacklinksExact(st, g) ==
    \A s \in StoreIds(st), t \in StoreIds(st), f \in LinkFields :
        s # t => (HasIncoming(g, t, f, s) <=> t \in ListedTargets(DwsOf(st, s), f))

(***************************************************************************)
(* Claims                                                                  *)
(***************************************************************************)

\* C1: after a full rebuild (apply_to_all) over a Store whose ids are unique, the
\* graph is symmetric, whatever it held before: s has the outgoing edge (s, f, t),
\* s # t, exactly when s is on incoming_links[t][f_back].
C1_RebuildSymmetric ==
    (lastOp \in {"scan", "rebuild"} /\ StoreUnique(store)) => Symmetric(link_graph)

\* C1 witness: a rebuild over a graph that an incremental update left without a
\* dangling target's node, the Store holding a link between two directives
C1_Witness ==
    /\ lastOp = "rebuild"
    /\ StoreUnique(store)
    /\ \E s \in StoreIds(store), t \in GraphIds(link_graph) \ StoreIds(store), f \in LinkFields :
          HasOutgoing(link_graph, s, f, t) /\ HasIncoming(link_graph, t, f, s)
    /\ \E s \in StoreIds(store), t \in StoreIds(store), f \in LinkFields :
          s # t /\ HasOutgoing(link_graph, s, f, t)

\* C2 (as claimed): after any sequence of watch events, the ids having been unique
\* throughout, s is on incoming_links[t][f_back] iff t is a target listed in s's
\* option f, for distinct Store directives s, t.
C2_BacklinksExact ==
    (phase = "watch" /\ idsUnique) => BacklinksExact(store, link_graph)

\* the graph g has the nodes, the outgoing lists and the incoming sets of h
SameGraph(g, h) ==
    /\ DOMAIN g = DOMAIN h
    /\ \A n \in DOMAIN g :
          /\ g[n].outgoing_links = h[n].outgoing_links
          /\ DOMAIN g[n].incoming_links = DOMAIN h[n].incoming_links
          /\ \A b \in DOMAIN g[n].incoming_links :
                Range(g[n].incoming_links[b]) = Range(h[n].incoming_links[b])

\* C3 (as claimed): after every incremental update the graph equals the graph a
\* full rebuild of the current Store produces: same nodes, same outgoing lists,
\* same incoming sets.
C3_IncrementalEqualsRebuild ==
    lastOp \in {"modify", "remove"} =>
        \E order \in VisitOrders(store) :
            SameGraph(link_graph, ApplyToAll(store, link_graph, order))

\* C4 (as claimed): after the build a directive whose link field lists its own id
\* has that id on none of its outgoing lists and on none of its incoming lists,
\* and the other targets of the field are linked.
C4_SelfReferenceDropped ==
    (lastOp = "scan" /\ StoreUnique(store)) =>
        \A e \in StoreEntries(store), f \in LinkFields :
            LET dws == store[e[1]][e[2]]
            IN dws.id \in ListedTargets(dws, f) =>
                  /\ \A h \in LinkFields : ~HasOutgoing(link_graph, dws.id, h, dws.id)
                  /\ \A h \in LinkFields : ~HasIncoming(link_graph, dws.id, h, dws.id)
                  /\ \A t \in ListedTargets(dws, f) \ {dws.id} :
                        HasOutgoing(link_graph, dws.id, f, t) /\ HasIncoming(link_graph, t, f, dws.id)

\* C5 (as claimed): every id that is the source or the target of a non-self link
\* has a node; a dangling target keeps its edge and has a node naming the source.
C5_LinkedIdsHaveNodes ==
    phase = "watch" =>
        /\ \A s \in DOMAIN link_graph, f \in LinkFields, t \in GraphIds(link_graph) :
              (s # t /\ HasOutgoing(link_graph, s, f, t)) => HasIncoming(link_graph, t, f, s)
        /\ \A t \in DOMAIN link_graph, f \in LinkFields, s \in GraphIds(link_graph) :
              HasIncoming(link_graph, t, f, s) => s \in DOMAIN link_graph

\* C6 (as claimed): after a Remove event no id that left the Store with the removed
\* files is a node or on an incoming list, and no incoming list is left empty.
C6_RemoveClearsIds ==
    [][lastOp' = "remove" =>
          /\ \A id \in StoreIds(store) \ StoreIds(store') :
                /\ id \notin DOMAIN link_graph'
                /\ \A n \in DOMAIN link_graph', f \in LinkFields : ~HasIncoming(link_graph', n, f, id)
          /\ \A n \in DOMAIN link_graph' :
                \A b \in DOMAIN link_graph'[n].incoming_links :
                    link_graph'[n].incoming_links[b] # <<>>]_vars

\* the options the emitter is to produce for a directive: the original options,
\* and each backlink field of its node with a non-empty list as comma-joined ids
ExpectedOptions(dws, g) ==
    LET incoming == IF dws.id \in DOMAIN g THEN g[dws.id].incoming_links ELSE EmptyMap
        back == {b \in DOMAIN incoming : incoming[b] # <<>>}
    IN [k \in DOMAIN dws.directive.options \cup back |->
           IF k \in back THEN Join(incoming[k], <<",">>) ELSE dws.directive.options[k]]

\* C7: every emitted record carries the directive's original options plus one
\* `<field>_back` key per non-empty incoming list of its node, the source ids joined
\* with commas; no other key is added (none for a directive without incoming links).
C7_EmittedOptions ==
    phase = "watch" =>
        /\ Cardinality(emitted) = Cardinality(StoreEntries(store))
        /\ \A e \in StoreEntries(store) :
              \E r \in emitted :
                  /\ r.id = e[2]
                  /\ r.source_file = PathStr(e[1])
                  /\ r.options = ExpectedOptions(store[e[1]][e[2]], link_graph)

\* C7 witness: one emitted record has a backlink key naming two sources, and a
\* directive with an outgoing link and no incoming link has no backlink key
C7_Witness ==
    /\ phase = "watch"
    /\ \E r \in emitted, f \in LinkFields :
          /\ BackName(f) \in DOMAIN r.options
          /\ Contains(r.options[BackName(f)], ",")
    /\ \E r \in emitted, f \in LinkFields :
          /\ f \in DOMAIN r.options
          /\ HasOutgoing(link_graph, r.id, f, <<"b">>)
          /\ \A h \in LinkFields : BackName(h) \notin DOMAIN r.options

\* the text process_file hands to the parser
RstContent == extract_from_file(rst_file, file_content)

\* the 1-based index of the line holding the character at a 0-based offset
LineIndexOf(text, position) ==
    1 + Cardinality({k \in 1..position : text[k] = "\n"})

\* the text reads `.. name::` from the 0-based offset position on
OpeningAt(text, position, name) ==
    /\ position + Len(name) + 5 <= Len(text)
    /\ SubSeq(text, position + 1, position + 3) = <<".", ".", " ">>
    /\ SubSeq(text, position + 4, position + 3 + Len(name)) = name
    /\ SubSeq(text, position + 4 + Len(name), position + 5 + Len(name)) = <<":", ":">>

\* the directive names the texts open
OpeningNames == {<<"d">>, <<"d", "x">>, <<"x", "d">>}

\* C8: every record of process_file has as id the trimmed value of its `id` option
\* when that is non-empty, and otherwise `<canonical source file>:<name>:<line_number>`;
\* an empty or whitespace-only `:id:` option falls back to the synthetic id.
C8_IdFromOptionOrSynthetic ==
    proc = "done" =>
        \A i \in DOMAIN records :
            LET r == records[i]
                o == r.directive.options
            IN /\ r.source_file = PathStr(rst_file)
               /\ IF IdKey \in DOMAIN o /\ Trim(o[IdKey]) # <<>>
                  THEN r.id = Trim(o[IdKey])
                  ELSE r.id = PathStr(rst_file) \o <<":">> \o r.directive.name \o <<":">>
                                  \o Decimal(r.line_number)

\* C8 witness: a record whose `id` option is blank has the synthetic id built from
\* the canonical path, the name and the line reported for it
C8_Witness ==
    /\ proc = "done"
    /\ \E i \in DOMAIN records :
          /\ IdKey \in DOMAIN records[i].directive.options
          /\ records[i].directive.options[IdKey] = <<>>
          /\ records[i].line_number = 2
          /\ records[i].id = <<"/", "d", "/", "x", ".", "r", "s", "t", ":", "d", ":", "2">>

\* C9: every directive parse_rst_multiple returns has a name of target_names and
\* stands in the text as an opening of exactly that name; an opening of a name that
\* contains a target name as a prefix or substring is not returned under the target name.
C9_ExactNameOnly ==
    proc = "done" =>
        /\ Len(records) = Len(located)
        /\ \A i \in DOMAIN located :
              /\ records[i].directive.name = located[i].directive.name
              /\ located[i].directive.name \in Range(target_directives)
              /\ OpeningAt(RstContent, located[i].position, located[i].directive.name)
              /\ \A n \in OpeningNames :
                    OpeningAt(RstContent, located[i].position, n) => located[i].directive.name = n

\* C9 witness: the only target is `d`, the text opens `dx`, `xd` and `d`, and the
\* one directive returned is the `d` one
C9_Witness ==
    /\ proc = "done"
    /\ target_directives = << <<"d">> >>
    /\ \E p \in 0..Len(RstContent) : OpeningAt(RstContent, p, <<"d", "x">>)
    /\ \E p \in 0..Len(RstContent) : OpeningAt(RstContent, p, <<"x", "d">>)
    /\ Len(located) = 1
    /\ OpeningAt(RstContent, located[1].position, <<"d">>)

\* C10: the line number reported for a directive is the 1-based index of the line of
\* the text on which its opening stands, wherever on that line the opening stands.
C10_LineNumberOfOpening ==
    proc = "done" =>
        \A i \in DOMAIN located :
            /\ records[i].line_number = located[i].line_number
            /\ located[i].line_number = LineIndexOf(RstContent, located[i].position)

\* C11: successive directives returned by one parse_rst_multiple call have strictly
\* increasing line numbers, for every text and every list of target names.
C11_LineNumbersIncrease ==
    proc = "done" =>
        \A i \in 1..(Len(located) - 1) :
            located[i].line_number < located[i + 1].line_number

\* C12: for a directive found in a C/C++ or Python file, the line number of its
\* record is the 1-based line of the original file on which its `.. name::`
\* opening stands.
C12_LineNumberInSourceFile ==
    (proc = "done" /\ FileKind(rst_file) \in {"cpp", "py"}) =>
        \A i \in DOMAIN records :
            LET source_lines == Lines(file_content)
                n == records[i].line_number
            IN /\ n \in DOMAIN source_lines
               /\ Find(source_lines[n], DirectiveStart(records[i].directive.name)) >= 0

\* C13: the content of every directive the parser returns does not end with a
\* newline and its last line is not blank or whitespace-only, whatever blank
\* lines follow the body in the text.
C13_ContentHasNoTrailingBlank ==
    proc = "done" =>
        \A i \in DOMAIN located :
            LET content == located[i].directive.content
            IN /\ records[i].directive.content = content
               /\ content # <<>> =>
                     \E k \in DOMAIN content :
                         /\ content[k] \notin Whitespace
                         /\ \A j \in (k + 1)..Len(content) : content[j] # "\n"

\* C13 witness: the body line `t` is followed by a whitespace-only line and the
\* content returned is `t`
C13_Witness ==
    /\ proc = "done"
    /\ file_content = Join(<<LineOpenD, LineBody, LineSpaces>>, <<"\n">>)
    /\ Len(located) = 1
    /\ located[1].directive.content = <<"t">>

\* C14: extract_from_file dispatches on the case-sensitive extension of the file
\* name: a `.rst` file gives its contents unchanged, a file with one of the seven
\* C/C++ extensions gives the C/C++ extraction, a `.py` file the Python extraction,
\* and a file with any other extension, an extension in other letter case or no
\* extension gives the empty text.
C14_DispatchOnExtension ==
    proc # "idle" =>
        LET file_name == rst_file[Len(rst_file)]
            named(ext) == file_name = <<"x", ".">> \o ext
        IN /\ named(<<"r", "s", "t">>) => rst_content = file_content
           /\ (\/ named(<<"c", "p", "p">>) \/ named(<<"c", "x", "x">>) \/ named(<<"c", "c">>)
               \/ named(<<"h">>) \/ named(<<"h", "p", "p">>) \/ named(<<"h", "x", "x">>)
               \/ named(<<"h", "h">>))
                 => rst_content = extract_from_cpp(file_content)
           /\ named(<<"p", "y">>) => rst_content = extract_from_python(file_content)
           /\ (\/ named(<<"R", "S", "T">>) \/ named(<<"P", "y">>) \/ named(<<"C", "p", "p">>)
               \/ named(<<"t", "x", "t">>)
               \/ file_name = <<"p", "y">> \/ file_name = <<".", "r", "s", "t">>)
                 => rst_content = <<>>

\* C14 witness: a file named `x.Py` holding a docstring block and a comment block
\* gives the empty text
C14_Witness ==
    /\ proc = "done"
    /\ rst_file[Len(rst_file)] = <<"x", ".", "P", "y">>
    /\ file_content = Join(<<PySingle, CppSingle>>, <<"\n">>)
    /\ extract_from_python(file_content) = <<"w">>
    /\ extract_from_cpp(file_content) = LineOpenD
    /\ rst_content = <<>>

\* C15: neither the extractor nor the parser aborts: for every text, non-ASCII
\* text at any position included, extract_from_file and parse_rst_multiple return
\* a result.
C15_NeverAborts ==
    proc # "idle" =>
        /\ rst_content = extract_from_file(rst_file, file_content)
        /\ proc # "panicked"

\* C16: in the C/C++ path a block opened by `@rst` that meets a non-blank
\* non-comment line, or the end of the input, before a comment line containing
\* `@endrst` contributes nothing: the output is that of the file without the lines
\* from the opening line up to the breaking line (or the end), so the lines
\* accumulated appear nowhere and the blocks that follow are still extracted.
C16_UnclosedBlockDiscarded ==
    proc = "done" =>
        LET lines == Lines(file_content)
            payload(k) == CommentContent(lines[k])
            opens(k) == /\ payload(k).some
                        /\ StartsWithStr(TrimStart(payload(k).text), RST_START_MARKER)
                        /\ Find(TrimStart(payload(k).text), RST_END_MARKER) < 0
            closes(k) == payload(k).some /\ Find(payload(k).text, RST_END_MARKER) >= 0
            breaks(k) == ~payload(k).some /\ ~IsBlank(lines[k])
            without(a, b) ==
                Join(SubSeq(lines, 1, a - 1) \o SubSeq(lines, b + 1, Len(lines)), <<"\n">>)
        IN \A i \in DOMAIN lines :
              (opens(i) /\ \A k \in 1..(i - 1) : ~opens(k)) =>
                 LET ends == {j \in (i + 1)..Len(lines) : closes(j) \/ breaks(j)}
                 IN IF ends = {}
                    THEN rst_content = extract_from_cpp(without(i, Len(lines)))
                    ELSE breaks(Min(ends)) =>
                            rst_content = extract_from_cpp(without(i, Min(ends)))

\* C16 witness: a block with one content line is broken by a code line and a
\* one-line block follows; the output is the one-line block alone
C16_Witness ==
    /\ proc = "done"
    /\ file_content = Join(<<CppOpen, CppText, CppCode, CppSingle>>, <<"\n">>)
    /\ rst_content = LineOpenD

\* C19: the text extracted from a C/C++ or Python file is the emitted blocks in
\* source order, each two successive blocks separated by exactly `\n\n`; the
\* directives parsed from it are the directives of the successive blocks, each at
\* its place in its block, in that order.
C19_BlocksJoinedInOrder ==
    (proc = "done" /\ FileKind(rst_file) \in {"cpp", "py"}) =>
        LET n == Len(extracted_blocks)
            RECURSIVE start(_)
            start(i) == IF i = 1 THEN 0 ELSE start(i - 1) + Len(extracted_blocks[i - 1]) + 2
            in_block(i) == directives_with_positions_and_lines(extracted_blocks[i], target_directives)
            RECURSIVE parsed(_)
            parsed(i) == IF i = 0 THEN <<>>
                         ELSE parsed(i - 1) \o
                              [k \in DOMAIN in_block(i) |->
                                  <<in_block(i)[k].directive.name, start(i) + in_block(i)[k].position>>]
        IN /\ n = 0 => rst_content = <<>>
           /\ n > 0 => Len(rst_content) = start(n) + Len(extracted_blocks[n])
           /\ \A i \in 1..n :
                 /\ SubSeq(rst_content, start(i) + 1, start(i) + Len(extracted_blocks[i]))
                       = extracted_blocks[i]
                 /\ i < n => SubSeq(rst_content, start(i) + Len(extracted_blocks[i]) + 1, start(i + 1))
                                = <<"\n", "\n">>
           /\ [k \in DOMAIN located |-> <<located[k].directive.name, located[k].position>>] = parsed(n)

\* C19 witness: two blocks, each opening a directive; the text is the two blocks
\* with `\n\n` between them and the two directives are reported on lines 1 and 3
C19_Witness ==
    /\ proc = "done"
    /\ file_content = Join(<<CppSingle, CppOpen, CppDirective, CppClose>>, <<"\n">>)
    /\ extracted_blocks = <<LineOpenD, LineOpenD>>
    /\ rst_content = LineOpenD \o <<"\n", "\n">> \o LineOpenD
    /\ Len(located) = 2
    /\ located[1].line_number = 1
    /\ located[2].line_number = 3

\* C20: in the C/C++ path the comment prefixes `//` and `///`, with or without one
\* following space and after leading whitespace, are interchangeable on every line:
\* the payload of a comment line is the text after the slashes and one optional
\* space, and writing every comment line of a file that mixes the four prefixes
\* with one and the same prefix in front of its payload (`//`, `/// `, or `// `
\* after leading whitespace) leaves the extracted text unchanged.
C20_PrefixesInterchangeable ==
    proc = "done" =>
        LET lines == Lines(file_content)
            slashes(t) == IF StartsWithStr(t, <<"/", "/", "/">>) THEN 3
                          ELSE IF StartsWithStr(t, <<"/", "/">>) THEN 2 ELSE 0
            after(t) == SliceFrom(t, slashes(t))
            payload(t) == IF StartsWithStr(after(t), <<" ">>) THEN Tail(after(t)) ELSE after(t)
            \* a prefix without space stands only before a payload that starts
            \* with neither a space nor a slash
            fits(prefix, p) == \/ prefix[Len(prefix)] = " "
                               \/ p # <<>> /\ p[1] \notin {" ", "/"}
            rewritten(prefix, line) ==
                LET t == TrimStart(line)
                IN IF slashes(t) = 0 THEN line
                   ELSE IF fits(prefix, payload(t)) THEN prefix \o payload(t)
                   ELSE prefix \o <<" ">> \o payload(t)
            with_prefix(prefix) ==
                Join([i \in DOMAIN lines |-> rewritten(prefix, lines[i])], <<"\n">>)
        IN \A prefix \in {<<"/", "/">>, <<"/", "/", "/", " ">>, <<"\t", " ", "/", "/", " ">>} :
              rst_content = extract_from_cpp(with_prefix(prefix))

\* C20 witness: a block whose four lines use the four prefixes `//`, `/// `, `///`
\* and `// ` gives the two payload lines
C20_Witness ==
    /\ proc = "done"
    /\ file_content = Join(<<CppOpenBare, CppDirective, CppText, CppClose>>, <<"\n">>)
    /\ rst_content = LineOpenD \o <<"\n", "t">>

\* C17: in the Python path an opening triple quote with no matching closing
\* delimiter stops the extraction: the output is that of the file cut before the
\* unmatched opening, so nothing after it is extracted and the blocks of the
\* earlier docstrings are returned.
C17_UnterminatedDocstringStops ==
    proc = "done" =>
        LET next_from(delimiter, from) ==
                LET rel == Find(SliceFrom(file_content, from), delimiter)
                IN IF rel < 0 THEN -1 ELSE from + rel
            RECURSIVE unmatched(_)
            \* the offset of the first opening delimiter at or after from that is
            \* never closed, -1 when every docstring is closed
            unmatched(from) ==
                LET double == next_from(TRIPLE_DOUBLE_QUOTE, from)
                    single == next_from(TRIPLE_SINGLE_QUOTE, from)
                IN IF double < 0 /\ single < 0 THEN -1
                   ELSE LET is_double == single < 0 \/ (double >= 0 /\ double < single)
                            opening == IF is_double THEN double ELSE single
                            closing == next_from(IF is_double THEN TRIPLE_DOUBLE_QUOTE
                                                 ELSE TRIPLE_SINGLE_QUOTE, opening + 3)
                        IN IF closing < 0 THEN opening ELSE unmatched(closing + 3)
            first_unmatched == unmatched(0)
        IN first_unmatched >= 0 =>
              rst_content = extract_from_python(SliceTo(file_content, first_unmatched))

\* C17 witness: a closed docstring with one block, then a triple double quote that
\* is never closed, followed by a complete single-quoted docstring with a block:
\* the output is the first block alone
C17_Witness ==
    /\ proc = "done"
    /\ file_content = Concat(<<TRIPLE_DOUBLE_QUOTE, PyPair, TRIPLE_DOUBLE_QUOTE,
                               TRIPLE_DOUBLE_QUOTE, PyPairDoc>>)
    /\ rst_content = LineOpenD

\* C18: in the Python path an `@rst` with no `@endrst` before the end of its closed
\* docstring yields no block and is not paired with an `@endrst` of a later
\* docstring: the output is that of the file without the text from that `@rst` up
\* to the closing delimiter of its docstring, so the blocks completed earlier in
\* the docstring and the blocks of later docstrings are still extracted.
C18_OpenFragmentDiscarded ==
    proc = "done" =>
        LET next_in(text, needle, from) ==
                LET rel == Find(SliceFrom(text, from), needle)
                IN IF rel < 0 THEN -1 ELSE from + rel
            RECURSIVE open_in(_, _)
            \* the offset in a docstring of the first `@rst` at or after from that no
            \* `@endrst` follows, -1 when every `@rst` is closed
            open_in(doc, from) ==
                LET opened == next_in(doc, RST_START_MARKER, from)
                IN IF opened < 0 THEN -1
                   ELSE LET ended == next_in(doc, RST_END_MARKER, opened + 4)
                        IN IF ended < 0 THEN opened ELSE open_in(doc, ended + 7)
            RECURSIVE first_open(_)
            \* the first closed docstring at or after from with an open `@rst`: the
            \* offsets of that `@rst` and of the closing delimiter
            first_open(from) ==
                LET double == next_in(file_content, TRIPLE_DOUBLE_QUOTE, from)
                    single == next_in(file_content, TRIPLE_SINGLE_QUOTE, from)
                IN IF double < 0 /\ single < 0 THEN [found |-> FALSE]
                   ELSE LET is_double == single < 0 \/ (double >= 0 /\ double < single)
                            opening == IF is_double THEN double ELSE single
                            closing == next_in(file_content,
                                               IF is_double THEN TRIPLE_DOUBLE_QUOTE
                                               ELSE TRIPLE_SINGLE_QUOTE, opening + 3)
                        IN IF closing < 0 THEN [found |-> FALSE]
                           ELSE LET at == open_in(SubSeq(file_content, opening + 4, closing), 0)
                                IN IF at >= 0
                                   THEN [found |-> TRUE, from |-> opening + 3 + at, to |-> closing]
                                   ELSE first_open(closing + 3)
            fragment == first_open(0)
        IN fragment.found =>
              rst_content = extract_from_python(SliceTo(file_content, fragment.from)
                                                    \o SliceFrom(file_content, fragment.to))

\* C18 witness: a docstring with a complete block and then an open `@rst`, followed
\* by a second docstring with a complete block: both complete blocks are extracted
\* and the open fragment is not
C18_Witness ==
    /\ proc = "done"
    /\ file_content = Concat(<<TRIPLE_DOUBLE_QUOTE, PyPair, PyOpen, TRIPLE_DOUBLE_QUOTE,
                               PyPairDoc>>)
    /\ extracted_blocks = <<LineOpenD, LineOpenD>>
    /\ rst_content = LineOpenD \o <<"\n", "\n">> \o LineOpenD

\* C24: in the options phase the value of an option is extended by exactly the
\* immediately following non-blank lines that are indented more than the option
\* line and do not themselves have the form `:key: value`; the fragments are joined
\* with `\n`, an empty first fragment being dropped. Stated for the option on the
\* first body line of the first directive, when no later line sets the same key.
C24_ContinuationExcludesOptions ==
    (proc = "done" /\ located # <<>> /\ located[1].position = 0) =>
        LET body == Tail(Lines(file_content))
            option_form(line) == /\ StartsWithStr(Trim(line), <<":">>)
                                 /\ Contains(Tail(Trim(line)), ":")
            key_of(line) == Trim(SplitOn(Tail(Trim(line)), ":")[1])
            value_of(line) == TrimStart(Join(Tail(SplitOn(Tail(Trim(line)), ":")), <<":">>))
            RECURSIVE continuation(_)
            continuation(i) ==
                IF /\ i <= Len(body)
                   /\ ~IsBlank(body[i])
                   /\ Indentation(body[i]) > Indentation(body[1])
                   /\ ~option_form(body[i])
                THEN <<Trim(body[i])>> \o continuation(i + 1)
                ELSE <<>>
            fragments == <<value_of(body[1])>> \o continuation(2)
            expected == IF Len(fragments) > 1 /\ fragments[1] = <<>>
                        THEN Join(Tail(fragments), <<"\n">>)
                        ELSE Join(fragments, <<"\n">>)
            options == located[1].directive.options
        IN (/\ body # <<>>
            /\ option_form(body[1])
            /\ \A k \in 2..Len(body) : option_form(body[k]) => key_of(body[k]) # key_of(body[1]))
              => /\ key_of(body[1]) \in DOMAIN options
                 /\ options[key_of(body[1])] = expected

\* C25: once a blank or whitespace-only line is met in the options phase, the phase
\* is over for the rest of the directive: the blank line is not part of the
\* content, no later line adds an option, and the lines after it, lines of the form
\* `:key: value` included, are the content lines, up to the line that ends the
\* content. Stated for the first directive when every line before the first blank
\* line is an option or the continuation of one.
C25_BlankLineEndsOptions ==
    (proc = "done" /\ located # <<>> /\ located[1].position = 0) =>
        LET body == Tail(Lines(file_content))
            option_form(line) == /\ StartsWithStr(Trim(line), <<":">>)
                                 /\ Contains(Tail(Trim(line)), ":")
            key_of(line) == Trim(SplitOn(Tail(Trim(line)), ":")[1])
            blanks == {k \in DOMAIN body : IsBlank(body[k])}
            first_blank == Min(blanks)
            RECURSIVE in_options(_, _)
            \* lines i .. first_blank - 1 are options and continuations, the last
            \* option line being indented by option_indentation (-1: none yet)
            in_options(i, option_indentation) ==
                IF i = first_blank THEN TRUE
                ELSE IF option_form(body[i])
                THEN /\ (option_indentation < 0 \/ Indentation(body[i]) <= option_indentation)
                     /\ in_options(i + 1, Indentation(body[i]))
                ELSE /\ option_indentation >= 0
                     /\ Indentation(body[i]) > option_indentation
                     /\ in_options(i + 1, option_indentation)
            non_blank == DOMAIN body \ blanks
            block_indent == IF non_blank = {} THEN 0 ELSE Indentation(body[Min(non_blank)])
            ends_content(line) ==
                \/ StartsWithStr(Trim(line), <<".", ".", " ">>) /\ Find(Trim(line), <<":", ":">>) >= 0
                \/ ~IsBlank(line) /\ Indentation(line) < block_indent
            RECURSIVE content_from(_)
            content_from(i) ==
                IF i > Len(body) \/ ends_content(body[i]) THEN <<>>
                ELSE <<body[i]>> \o content_from(i + 1)
            directive == located[1].directive
        IN (blanks # {} /\ in_options(1, -1)) =>
              /\ DOMAIN directive.options
                    = {key_of(body[k]) : k \in {j \in 1..(first_blank - 1) : option_form(body[j])}}
              /\ directive.content
                    = Join(PopTrailingBlank(Dedent(content_from(first_blank + 1))), <<"\n">>)

\* C25 witness: an option, a whitespace-only line and a line of option form: the
\* directive has the first option alone and the later line is its content
C25_Witness ==
    /\ proc = "done"
    /\ file_content = Join(<<LineOpenD, LineId, LineSpaces, LineOptionDeep>>, <<"\n">>)
    /\ Len(located) = 1
    /\ located[1].directive.options = (IdKey :> <<"a">>)
    /\ located[1].directive.content = <<":", "m", ":", " ", "w">>

C27_ContentStopsBeforeTerminator ==
    (proc = "done" /\ located # <<>> /\ located[1].position = 0) =>
        LET body == Tail(Lines(file_content))
            option_form(line) == /\ StartsWithStr(Trim(line), <<":">>)
                                 /\ Contains(Tail(Trim(line)), ":")
            RECURSIVE content_phase(_)
            \* the first line handled in the content phase: past the option lines
            \* with their continuation lines and past the blank line that ends them
            content_phase(i) ==
                IF i > Len(body) THEN i
                ELSE IF option_form(body[i])
                THEN content_phase(i + 1 + ContinuationCount(body, i + 1, Indentation(body[i])))
                ELSE IF IsBlank(body[i]) THEN i + 1
                ELSE i
            first_content == content_phase(1)
            block_indent == Indentation(body[Min({k \in DOMAIN body : ~IsBlank(body[k])})])
            terminates(line) ==
                \/ StartsWithStr(Trim(line), <<".", ".", " ">>) /\ Find(Trim(line), <<":", ":">>) >= 0
                \/ ~IsBlank(line) /\ Indentation(line) < block_indent
            terminators == {k \in first_content..Len(body) : terminates(body[k])}
            last_content == IF terminators = {} THEN Len(body) ELSE Min(terminators) - 1
            content_lines == SubSeq(body, first_content, last_content)
            directive == located[1].directive
        IN /\ directive.content = Join(PopTrailingBlank(Dedent(content_lines)), <<"\n">>)
           /\ Len(Lines(directive.content)) <= last_content + 1 - first_content
           /\ (terminators # {} /\ StartsWithStr(Trim(body[Min(terminators)]), DirectiveStart(<<"d">>))) =>
                 \E k \in DOMAIN located :
                     /\ k > 1
                     /\ located[k].line_number = Min(terminators) + 1
                     /\ located[k].directive.name = <<"d">>

\* C27 witness: a content line, then a line that opens a target directive, then a
\* line of its body: two records, the first with the one content line
C27_Witness ==
    /\ proc = "done"
    /\ file_content = Join(<<LineOpenD, LineBody, LineOpenD, LineDeep>>, <<"\n">>)
    /\ Len(located) = 2
    /\ located[1].directive.content = <<"t">>
    /\ located[2].line_number = 3
    /\ located[2].directive.content = <<"c">>

\* C28: a line that opens a directive whose name is not a target produces no
\* record, and its text is in no option value and in no content of a returned
\* directive.
C28_FailedCandidateNeverLeaks ==
    proc = "done" =>
        LET body == Tail(Lines(file_content))
            candidates == {k \in DOMAIN body : Trim(body[k]) = DirectiveStart(<<"x">>)}
        IN candidates # {} =>
              \A r \in DOMAIN located :
                  LET directive == located[r].directive
                  IN /\ directive.name # <<"x">>
                     /\ Find(directive.content, DirectiveStart(<<"x">>)) < 0
                     /\ \A key \in DOMAIN directive.options :
                            Find(directive.options[key], DirectiveStart(<<"x">>)) < 0

\* C29: a line that opens the target directive with two spaces between the dots
\* and the name is recognised: a record with the name is returned on its line.
C29_SpacedOpeningRecognised ==
    proc = "done" =>
        LET all_lines == Lines(file_content)
        IN \A k \in DOMAIN all_lines :
               all_lines[k] = LineOpenSpaced =>
                   \E r \in DOMAIN located :
                       /\ located[r].line_number = k
                       /\ located[r].directive.name = <<"d">>

\* C30: the content of a directive is its content lines, the trailing blank ones
\* left out, each without the same number n of leading characters, n being the
\* smallest indentation of the non-blank lines: a blank or whitespace-only line
\* becomes an empty line and stays in its place, every other line keeps what
\* follows its first n characters, and a non-empty content has a line that
\* starts at column 0.
C30_ContentDedented ==
    (proc = "done" /\ located # <<>> /\ located[1].position = 0) =>
        LET body == Tail(Lines(file_content))
            option_form(line) == /\ StartsWithStr(Trim(line), <<":">>)
                                 /\ Contains(Tail(Trim(line)), ":")
            RECURSIVE content_phase(_)
            content_phase(i) ==
                IF i > Len(body) THEN i
                ELSE IF option_form(body[i])
                THEN content_phase(i + 1 + ContinuationCount(body, i + 1, Indentation(body[i])))
                ELSE IF IsBlank(body[i]) THEN i + 1
                ELSE i
            first_content == content_phase(1)
            block_indent == Indentation(body[Min({k \in DOMAIN body : ~IsBlank(body[k])})])
            terminates(line) ==
                \/ StartsWithStr(Trim(line), <<".", ".", " ">>) /\ Find(Trim(line), <<":", ":">>) >= 0
                \/ ~IsBlank(line) /\ Indentation(line) < block_indent
            terminators == {k \in first_content..Len(body) : terminates(body[k])}
            last_content == IF terminators = {} THEN Len(body) ELSE Min(terminators) - 1
            content_lines == SubSeq(body, first_content, last_content)
            filled == {k \in DOMAIN content_lines : ~IsBlank(content_lines[k])}
            content == located[1].directive.content
            \* the lines of the content: between the line feeds, none when all
            \* content lines are blank
            out == IF filled = {} THEN <<>> ELSE SplitOn(content, "\n")
        IN /\ filled = {} => content = <<>>
           /\ filled # {} =>
                 LET n == Min({Indentation(content_lines[k]) : k \in filled})
                     last_filled == CHOOSE k \in filled : \A j \in filled : j <= k
                 IN /\ Len(out) = last_filled
                    /\ \A k \in 1..last_filled :
                           IF k \in filled
                           THEN /\ Len(content_lines[k]) = n + Len(out[k])
                                /\ \A c \in 1..n : content_lines[k][c] = " "
                                /\ SliceFrom(content_lines[k], n) = out[k]
                           ELSE out[k] = <<>>
                    /\ \E k \in filled : out[k] # <<>> /\ out[k][1] # " "

\* C30 witness: after the options a content line indented by four and one
\* indented by two: the content is the first line indented by two and the
\* second line at column 0
C30_Witness ==
    /\ proc = "done"
    /\ file_content = Join(<<LineOpenD, LineId, LineBlank, LineDeep, LineBody>>, <<"\n">>)
    /\ Len(located) = 1
    /\ located[1].directive.content = <<" ", " ", "c", "\n", "t">>

\* C22: in a batch a file that cannot be read or canonicalised fails alone: the
\* directives of every file that was processed are returned by the call, and
\* the report of the call holds the error of every file that failed.
C22_FailingFileFailsAlone ==
    (batch.called /\ batch.kind # "panic") =>
        LET result(i) == process_file(file_paths[i].path, << <<"d">> >>, file_paths[i].answer)
            failed == {i \in DOMAIN file_paths : result(i).kind = "err"}
        IN /\ \A i \in DOMAIN file_paths \ failed :
                 \A k \in DOMAIN result(i).directives :
                     /\ "directives" \in DOMAIN batch
                     /\ \E j \in DOMAIN batch.directives : batch.directives[j] = result(i).directives[k]
           /\ failed # {} =>
                 /\ batch.kind = "err"
                 /\ \A i \in failed : Find(batch.message, result(i).e_str) >= 0

\* C21: the step of the handler that treats a Remove event for a path leaves in
\* the Store exactly the entries whose key is not P and does not have P as a
\* prefix of its components, each as it was, where P is the canonical form of
\* the event's path when the path resolves and the event's path as received
\* when it does not.
C21_RemoveDropsPathAndBelow ==
    [][(handler_pc = "match" /\ handler_pc' # "match" /\ event.kind = "remove") =>
          LET P == IF event.exists
                   THEN (IF Head(event.path) = <<"l">> THEN DirD \o Tail(event.path) ELSE event.path)
                   ELSE event.path
              under(k) == Len(P) <= Len(k) /\ \A c \in 1..Len(P) : k[c] = P[c]
          IN /\ DOMAIN store' = {k \in DOMAIN store : ~(k = P \/ under(k))}
             /\ \A k \in DOMAIN store' : store'[k] = store[k]]_vars

\* C21 witness: the Store held a file of the directory d and a file of the
\* directory e, and the handler has treated the removal of d: the file of d is
\* gone with its ids collected, the file of e is there
C21_Witness ==
    /\ handler_pc = "update"
    /\ event.kind = "remove"
    /\ event.path = DirD
    /\ PathX \notin DOMAIN store
    /\ PathY \in DOMAIN store
    /\ locals.ids_to_clear_from_graph # {}

\* C23: the call that emits builds its records holding the Store lock and the
\* graph lock, and the records are those of the Store and the graph it holds;
\* the handler holds both locks from its change of the Store to the end of its
\* update of the graph; so no build reads a changed Store with the graph before
\* its update, and the handler and the call never wait for each other's lock.
C23_EmitNeverHalfApplied ==
    /\ emit_pc = "build" => (store_lock = "emit" /\ link_graph_lock = "emit")
    /\ emit_pc = "drop_store" =>
          /\ store_lock = "emit" /\ link_graph_lock = "emit"
          /\ emitted = create_directive_outputs(store, link_graph)
    /\ handler_pc \in {"match", "update"} => (store_lock = "handler" /\ link_graph_lock = "handler")
    /\ observed # "half_applied"
    /\ ~(/\ handler_pc \in {"lock_store", "lock_graph"}
         /\ (IF handler_pc = "lock_store" THEN store_lock ELSE link_graph_lock) = "emit"
         /\ emit_pc = "lock_second"
         /\ (store_lock = "handler" \/ link_graph_lock = "handler"))

\* C23 witness: after an update for a removal, the call that emits has built its
\* records and still holds both locks while the handler, with the next Remove
\* event, waits for the Store lock
C23_Witness ==
    /\ lastOp = "remove"
    /\ emit_pc = "drop_store"
    /\ observed = "settled"
    /\ store_lock = "emit"
    /\ handler_pc = "lock_store"
    /\ event.kind = "remove"
    /\ emitted # {}

\* C31: every block pushed by the extractor, from a C/C++ file or a Python file,
\* is dedented: among its non-blank lines the smallest count of leading spaces
\* is 0.
C31_BlocksDedented ==
    proc = "done" =>
        \A b \in DOMAIN extracted_blocks :
            LET block_lines == SplitOn(extracted_blocks[b], "\n")
                filled == {k \in DOMAIN block_lines : ~IsBlank(block_lines[k])}
            IN filled # {} => \E k \in filled : LeadingSpaces(block_lines[k]) = 0

\* C32: no block pushed by the extractor starts or ends with a blank line: the
\* first and the last of the lines of every block hold text.
C32_BlocksHaveNoBlankEnds ==
    proc = "done" =>
        \A b \in DOMAIN extracted_blocks :
            LET block_lines == SplitOn(extracted_blocks[b], "\n")
            IN ~IsBlank(block_lines[1]) /\ ~IsBlank(block_lines[Len(block_lines)])

\* C33: in a Python file the docstrings are found from left to right, each
\* opened by the first `"""` or `'''` after the one before and closed by the next
\* occurrence of the delimiter that opened it, the other delimiter inside being
\* text; the blocks extracted are the `@rst` .. `@endrst` pairs that lie inside
\* one docstring, in order, and markers outside the docstrings give no block.
C33_DocstringClosedBySameDelimiter ==
    proc = "done" =>
        LET text == file_content
            \* the first position at or after from where s occurs, 0 when none
            at(s, from) ==
                LET hits == {k \in from..(Len(text) - Len(s) + 1) : SubSeq(text, k, k + Len(s) - 1) = s}
                IN IF hits = {} THEN 0 ELSE Min(hits)
            RECURSIVE docstrings(_)
            \* the texts of the closed docstrings that open at or after from
            docstrings(from) ==
                LET dq == at(TRIPLE_DOUBLE_QUOTE, from)
                    sq == at(TRIPLE_SINGLE_QUOTE, from)
                    open == IF dq = 0 THEN sq ELSE IF sq = 0 THEN dq ELSE Min({dq, sq})
                    delimiter == IF open = dq THEN TRIPLE_DOUBLE_QUOTE ELSE TRIPLE_SINGLE_QUOTE
                    close == at(delimiter, open + 3)
                IN IF open = 0 \/ close = 0 THEN <<>>
                   ELSE <<SubSeq(text, open + 3, close - 1)>> \o docstrings(close + 3)
            RECURSIVE blocks_of(_)
            blocks_of(docs) ==
                IF docs = <<>> THEN <<>> ELSE DocBlocks(Head(docs), 0) \o blocks_of(Tail(docs))
        IN extracted_blocks = blocks_of(docstrings(1))

\* C33 witness: a docstring in double quotes that holds a block between two
\* `'''`: the single quotes are text and the block is extracted
C33_Witness ==
    /\ proc = "done"
    /\ file_content = Concat(<<TRIPLE_DOUBLE_QUOTE, TRIPLE_SINGLE_QUOTE, PyInline,
                               TRIPLE_SINGLE_QUOTE, TRIPLE_DOUBLE_QUOTE>>)
    /\ extracted_blocks = << <<"w">> >>

\* C34: no incoming list of the graph holds a source id twice, after the initial
\* scan, after every event of the watch loop and after every full rebuild.
C34_IncomingListsHoldNoIdTwice ==
    \A n \in DOMAIN link_graph :
        \A b \in DOMAIN link_graph[n].incoming_links :
            LET incoming == link_graph[n].incoming_links[b]
            IN \A i, j \in DOMAIN incoming : i # j => incoming[i] # incoming[j]

\* C34 witness: after a full rebuild the directive a, whose field l names the
\* target c twice, is twice on its outgoing list and once on the incoming list of c
C34_Witness ==
    /\ lastOp = "rebuild"
    /\ <<"a">> \in DOMAIN link_graph
    /\ <<"c">> \in DOMAIN link_graph
    /\ <<"l">> \in DOMAIN link_graph[<<"a">>].outgoing_links
    /\ link_graph[<<"a">>].outgoing_links[<<"l">>] = << <<"c">>, <<"c">> >>
    /\ BackName(<<"l">>) \in DOMAIN link_graph[<<"c">>].incoming_links
    /\ link_graph[<<"c">>].incoming_links[BackName(<<"l">>)] = << <<"a">> >>

(***************************************************************************)
(* The watch loop with the handled event kept (main.rs)                    *)
(***************************************************************************)

\* EventKind::Create(_) | EventKind::Modify(_), the relevant paths of the event and
\* what process_file_watch returned for each of them kept in `event`
CreateModifyEvent ==
    /\ phase = "watch"
    /\ \E paths \in PathLists(ModifyPaths) :
         LET relevant == RelevantEventPaths(paths)
         IN \E outcomes \in [DOMAIN relevant -> ReadOutcomes] :
               /\ event' = [kind |-> "modify", paths |-> relevant, outcomes |-> outcomes]
               /\ IF relevant = <<>>
                  THEN /\ lastOp' = "ignored"
                       /\ UNCHANGED <<store, link_graph, emitted, phase, idsUnique>>
                  ELSE Handled(ProcessPaths(NewLocals(store), relevant, outcomes), "modify")
    /\ UNCHANGED <<procVars, batchVars>>
    /\ UNCHANGED <<locals, handler_pc, emit_pc, store_lock, link_graph_lock, observed>>

NextEvent == InitialScan \/ InitialScanFails \/ CreateModifyEvent

SpecEvent == Init /\ [][NextEvent]_vars

\* C35: a Create or Modify event changes only the Store entries of the files it
\* names and that could be re-read: after the event the entry of each such file
\* holds exactly the directives parsed from its new content, and the entry of every other file, present or absent, is what it was
C35_EventChangesOnlyItsFiles ==
    [][(phase = "watch" /\ event'.kind = "modify") =>
         LET reread == {i \in DOMAIN event'.paths : event'.outcomes[i].ok}
             named  == {event'.paths[i] : i \in reread}
         IN /\ \A f \in (DOMAIN store \cup DOMAIN store') \ named :
                  f \in DOMAIN store /\ f \in DOMAIN store' /\ store'[f] = store[f]
            /\ \A i \in reread :
                  LET F == event'.paths[i]
                      dws_seq == ProcessParsed(F, event'.outcomes[i].parsed)
                  IN /\ F \in DOMAIN store'
                     /\ {store'[F][id] : id \in DOMAIN store'[F]} = {dws_seq[k] : k \in DOMAIN dws_seq}]_vars

\* C40: merging the parse results of a file into the Store loses no directive:
\* after a Create or Modify event the entry of each file that was re-read has as
\* many records as the parser returned directives for the file
C40_MergeLosesNoDirective ==
    [][(phase = "watch" /\ event'.kind = "modify") =>
         \A i \in DOMAIN event'.paths :
            event'.outcomes[i].ok =>
               /\ event'.paths[i] \in DOMAIN store'
               /\ Cardinality(DOMAIN store'[event'.paths[i]]) = Len(event'.outcomes[i].parsed)]_vars

\* C36: when process_file_watch fails for a file named in a Create or Modify
\* event, the Store entry of the file is the same after the event as before it,
\* and so are the graph edges of its directives: each of them whose id is not
\* also the id of a directive parsed for another file of the event has the same
\* outgoing links after the event as before it and stands on the same incoming
\* lists of its targets
C36_FailedFileKeepsEntryAndEdges ==
    [][(phase = "watch" /\ event'.kind = "modify") =>
         \A i \in DOMAIN event'.paths :
            LET F == event'.paths[i]
                Reparsed ==
                    UNION {DOMAIN FileMap(ProcessParsed(event'.paths[k], event'.outcomes[k].parsed)) :
                              k \in {k \in DOMAIN event'.paths : event'.outcomes[k].ok}}
                Outgoing(g, id) == IF id \in DOMAIN g THEN g[id].outgoing_links ELSE EmptyMap
                ListedOn(g, id) ==
                    {<<n, b>> \in (DOMAIN g) \X (UNION {DOMAIN g[n].incoming_links : n \in DOMAIN g}) :
                        /\ b \in DOMAIN g[n].incoming_links
                        /\ \E k \in DOMAIN g[n].incoming_links[b] : g[n].incoming_links[b][k] = id}
            IN (~event'.outcomes[i].ok /\ F \in DOMAIN store) =>
                  /\ F \in DOMAIN store' /\ store'[F] = store[F]
                  /\ \A id \in DOMAIN store[F] \ Reparsed :
                        /\ Outgoing(link_graph', id) = Outgoing(link_graph, id)
                        /\ ListedOn(link_graph', id) = ListedOn(link_graph, id)]_vars

\* C37: no line at the indentation of the opening line is taken into a directive:
\* when the first non-blank line after an opening line at column 0 is itself at
\* column 0, the directive has no option and its content is empty.
C37_UnindentedLineIsNoBody ==
    (proc = "done" /\ located # <<>> /\ located[1].position = 0) =>
        LET body == Tail(Lines(file_content))
            non_blank == {k \in DOMAIN body : ~IsBlank(body[k])}
        IN (non_blank # {} /\ Indentation(body[Min(non_blank)]) = 0) =>
              /\ located[1].directive.options = EmptyMap
              /\ located[1].directive.content = <<>>

\* C38: a directive record is returned only for an occurrence of `.. name::` that
\* is the first non-blank text of its line: between the start of the line and the
\* position of every returned directive there are only spaces.
C38_RecordOnlyAtLineStart ==
    proc = "done" =>
        \A r \in DOMAIN located :
            LET RECURSIVE line_start(_)
                line_start(p) == IF p = 0 \/ file_content[p] = "\n" THEN p ELSE line_start(p - 1)
                position == located[r].position
            IN \A k \in (line_start(position) + 1)..position : file_content[k] = " "

\* C39: the emitted records depend on the Store and the link configuration only:
\* after the initial scan the emitted records, with the value of every
\* `<field>_back` option, are those a rebuild from an empty graph gives in any
\* order of visiting the files and directives of the Store.
C39_EmittedIndependentOfVisitOrder ==
    lastOp = "scan" =>
        \A order \in VisitOrders(store) :
            create_directive_outputs(store, ApplyToAll(store, EmptyMap, order)) = emitted

====
